---- MODULE Spec2Model ----
(***************************************************************************)
(* Narrative-to-record extraction of the SEO agents application:           *)
(* formatTechnicalSeoResults, formatContentResults and                     *)
(* formatKeywordResults, computed on character strings with the regular    *)
(* expressions of the source, and the run methods of AgentService that     *)
(* apply them to the text an agent returns.                                *)
(*                                                                         *)
(* Numbers.  Every JavaScript number is a record [nan, n, d]: NaN when nan *)
(* is TRUE, otherwise the exact decimal n/d with d a power of ten.         *)
(* Math.round rounds the exact value, a tie upwards.  An IEEE double       *)
(* weighted sum can differ from the exact one only when the exact value    *)
(* is a tie (x.5); the defaults and the narratives below give no such      *)
(* difference.                                                             *)
(***************************************************************************)
EXTENDS Integers, Sequences, FiniteSets, TLC

VARIABLES
    call,       \* the run method of AgentService awaiting its agent: "none" when idle
    rawOutput,  \* result.output of the last agent.invoke
    result,     \* the record the last run method returned, which a page displays: [fn, value]
    scanLoop,   \* the scan loop at work: "issues", "improvements" or "recommendations"
    regexIndex, \* the position in its list of the recognizer the loop is at
    startPos,   \* startPos of the while loop
    collected,  \* the length of the array the loop pushes its findings to
    scanPc,     \* "scan" inside the loops, "done" after them
    agents,     \* the private agent fields of AgentService: 0 for null
    created,    \* per field, the number of calls of its create function
    tasks,      \* the calls of init* and run* methods: [method, field, pc, agent]
    page,       \* the page the router has mounted
    fields,     \* the text fields of its form
    error,      \* the error state of the form
    isLoading,  \* the isLoading state of the page
    submit      \* the last submission: "idle", "invalid", "awaiting", "succeeded", "failed"

scanVars == <<scanLoop, regexIndex, startPos, collected, scanPc>>
agentVars == <<agents, created, tasks>>
pageVars == <<page, fields, error, isLoading, submit>>

vars == <<call, rawOutput, result, scanVars, agentVars, pageVars>>

(***************************************************************************)
(* Strings                                                                 *)
(***************************************************************************)
UpperCase == <<"A","B","C","D","E","F","G","H","I","J","K","L","M",
               "N","O","P","Q","R","S","T","U","V","W","X","Y","Z">>
LowerCase == <<"a","b","c","d","e","f","g","h","i","j","k","l","m",
               "n","o","p","q","r","s","t","u","v","w","x","y","z">>

Digits == {"0","1","2","3","4","5","6","7","8","9"}

charAt(s, i) == IF i >= 1 /\ i <= Len(s) THEN SubSeq(s, i, i) ELSE ""

\* the lower-case letter of each upper-case letter
lowerOf == [c \in {UpperCase[k] : k \in 1..26} |->
               LowerCase[CHOOSE k \in 1..26 : UpperCase[k] = c]]

\* c.toUpperCase() for one character
UpperChar(c) ==
    IF \E k \in 1..26 : LowerCase[k] = c
    THEN UpperCase[CHOOSE k \in 1..26 : LowerCase[k] = c]
    ELSE c

\* String.prototype.toLowerCase, character by character (the string is halved
\* at each step, which keeps the evaluation shallow)
RECURSIVE toLowerCase(_)
toLowerCase(s) ==
    IF Len(s) = 0 THEN ""
    ELSE IF Len(s) = 1 THEN (IF s \in DOMAIN lowerOf THEN lowerOf[s] ELSE s)
    ELSE toLowerCase(SubSeq(s, 1, Len(s) \div 2))
            \o toLowerCase(SubSeq(s, Len(s) \div 2 + 1, Len(s)))

\* String.prototype.substring(a, b) with 0-based a, exclusive b
substring(s, a, b) ==
    LET lo == IF a < 0 THEN 0 ELSE IF a > Len(s) THEN Len(s) ELSE a
        hi == IF b < 0 THEN 0 ELSE IF b > Len(s) THEN Len(s) ELSE b
    IN  IF lo <= hi THEN SubSeq(s, lo + 1, hi) ELSE SubSeq(s, hi + 1, lo)

\* 1-based position of the first occurrence of lit in s that starts in lo..hi,
\* 0 if none (the range is halved at each step)
RECURSIVE IndexIn(_, _, _, _)
IndexIn(s, lit, lo, hi) ==
    IF lo > hi THEN 0
    ELSE IF lo = hi
         THEN IF SubSeq(s, lo, lo + Len(lit) - 1) = lit THEN lo ELSE 0
    ELSE LET left == IndexIn(s, lit, lo, (lo + hi) \div 2)
         IN  IF left # 0 THEN left ELSE IndexIn(s, lit, (lo + hi) \div 2 + 1, hi)


\* String.prototype.includes: case-sensitive containment
includes(s, lit) == IndexIn(s, lit, 1, Len(s) - Len(lit) + 1) # 0

IsSpace(c) == c \in {" ", "\t", "\n", "\r"}

\* the character classes of the patterns: \d, [\d.], [\d,], \s, ., [^.;], [^,;]
InClass(cls, c) ==
    CASE cls = "d"  -> c \in Digits
      [] cls = "d." -> c \in Digits \/ c = "."
      [] cls = "d," -> c \in Digits \/ c = ","
      [] cls = "s"  -> IsSpace(c)
      [] cls = "."  -> c # "" /\ c \notin {"\n", "\r"}
      [] cls = "^.;" -> c \notin {".", ";"}
      [] cls = "^,;" -> c \notin {",", ";"}

\* the first position in lo..hi of s whose character is not of class cls, hi + 1
\* if there is none (the range is halved at each step)
RECURSIVE FirstOutside(_, _, _, _)
FirstOutside(cls, s, lo, hi) ==
    IF lo > hi THEN hi + 1
    ELSE IF lo = hi THEN (IF InClass(cls, SubSeq(s, lo, lo)) THEN hi + 1 ELSE lo)
    ELSE LET left == FirstOutside(cls, s, lo, (lo + hi) \div 2)
         IN  IF left <= (lo + hi) \div 2 THEN left
             ELSE FirstOutside(cls, s, (lo + hi) \div 2 + 1, hi)

RECURSIVE trimStart(_)
trimStart(s) ==
    IF Len(s) > 0 /\ IsSpace(SubSeq(s, 1, 1)) THEN trimStart(SubSeq(s, 2, Len(s))) ELSE s

RECURSIVE trimEnd(_)
trimEnd(s) ==
    IF Len(s) > 0 /\ IsSpace(SubSeq(s, Len(s), Len(s)))
    THEN trimEnd(SubSeq(s, 1, Len(s) - 1)) ELSE s

trim(s) == trimEnd(trimStart(s))

(***************************************************************************)
(* Regular expressions.  A RegExp is [atoms, i]: the atoms of the pattern  *)
(* in order, and whether the i flag is set.  Matching is the backtracking  *)
(* search of the ECMAScript engine: leftmost start, greedy quantifiers     *)
(* longest-first, lazy quantifiers shortest-first, alternatives in order.  *)
(***************************************************************************)
Lit(str)   == [t |-> "lit", s |-> str]                \* literal text
Alt(alts)  == [t |-> "alt", alts |-> alts]            \* (?:a|b|...)
Opt(str)   == [t |-> "alt", alts |-> <<str, "">>]     \* x? and (?:x)?
Star(cls)  == [t |-> "rep", cls |-> cls, min |-> 0]   \* c*
Plus(cls)  == [t |-> "rep", cls |-> cls, min |-> 1]   \* c+
One(cls)   == [t |-> "one", cls |-> cls]              \* one character of a class
Lazy       == [t |-> "lazy"]                          \* .*?
Open(g)    == [t |-> "open", g |-> g]                 \* start of capture group g
Close(g)   == [t |-> "close", g |-> g]                \* end of capture group g
AltOrEnd(alts) == [t |-> "altend", alts |-> alts]     \* (?:a|b|$), $ without the m flag

\* new RegExp(source, flags): with the i flag both pattern and subject are case-folded
RegExp(atoms, flags) ==
    LET LowerAtom(a) ==
            CASE a.t = "lit" -> [a EXCEPT !.s = toLowerCase(a.s)]
              [] a.t \in {"alt", "altend"} ->
                    [a EXCEPT !.alts = [k \in 1..Len(a.alts) |-> toLowerCase(a.alts[k])]]
              [] OTHER -> a
    IN  [atoms |-> IF flags = "i" THEN [k \in 1..Len(atoms) |-> LowerAtom(atoms[k])]
                   ELSE atoms,
         i |-> flags = "i"]

\* (\n|$) as capture group g, the tail of the line-capturing patterns
LineEnd(g) == <<Open(g), AltOrEnd(<<"\n">>), Close(g)>>

NoCaps == <<<<0, 0>>, <<0, 0>>, <<0, 0>>>>
NoMatch == [ok |-> FALSE, index |-> 0, end |-> 0, caps |-> NoCaps]

\* the number of consecutive characters of class cls in s from position i
RunLength(cls, s, i) == FirstOutside(cls, s, i, Len(s)) - i

StartsWithAt(s, i, lit) ==
    i + Len(lit) - 1 <= Len(s) /\ SubSeq(s, i, i + Len(lit) - 1) = lit

RECURSIVE MatchHere(_, _, _, _, _)
RECURSIVE TryAlts(_, _, _, _, _, _)
RECURSIVE TryGreedy(_, _, _, _, _, _, _)
RECURSIVE TryLazy(_, _, _, _, _, _, _)

\* the rest of the pattern from atom k, anchored at position i of s (1-based)
MatchHere(re, k, s, i, caps) ==
    IF k > Len(re) THEN [ok |-> TRUE, index |-> 0, end |-> i, caps |-> caps]
    ELSE LET a == re[k] IN
      CASE a.t = "lit"   -> IF StartsWithAt(s, i, a.s)
                            THEN MatchHere(re, k + 1, s, i + Len(a.s), caps)
                            ELSE NoMatch
        [] a.t \in {"alt", "altend"} -> TryAlts(re, k, s, i, caps, 1)
        [] a.t = "rep"   -> TryGreedy(re, k, s, i, caps, a.min, RunLength(a.cls, s, i))
        [] a.t = "one"   -> IF i <= Len(s) /\ InClass(a.cls, SubSeq(s, i, i))
                            THEN MatchHere(re, k + 1, s, i + 1, caps)
                            ELSE NoMatch
        [] a.t = "lazy"  -> TryLazy(re, k, s, i, caps, 0, RunLength(".", s, i))
        [] a.t = "open"  -> MatchHere(re, k + 1, s, i, [caps EXCEPT ![a.g] = <<i, i>>])
        [] a.t = "close" -> MatchHere(re, k + 1, s, i, [caps EXCEPT ![a.g] = <<caps[a.g][1], i>>])

TryAlts(re, k, s, i, caps, n) ==
    IF n > Len(re[k].alts)
    THEN IF re[k].t = "altend" /\ i = Len(s) + 1
         THEN MatchHere(re, k + 1, s, i, caps)
         ELSE NoMatch
    ELSE LET r == IF StartsWithAt(s, i, re[k].alts[n])
                  THEN MatchHere(re, k + 1, s, i + Len(re[k].alts[n]), caps)
                  ELSE NoMatch
         IN  IF r.ok THEN r ELSE TryAlts(re, k, s, i, caps, n + 1)

\* a greedy quantifier: the longest repetition count in lo..hi with which the
\* rest of the pattern matches
TryGreedy(re, k, s, i, caps, lo, hi) ==
    IF lo > hi THEN NoMatch
    ELSE IF lo = hi THEN MatchHere(re, k + 1, s, i + lo, caps)
    ELSE LET right == TryGreedy(re, k, s, i, caps, (lo + hi) \div 2 + 1, hi)
         IN  IF right.ok THEN right ELSE TryGreedy(re, k, s, i, caps, lo, (lo + hi) \div 2)

\* a lazy quantifier: the shortest repetition count in lo..hi with which the
\* rest of the pattern matches
TryLazy(re, k, s, i, caps, lo, hi) ==
    IF lo > hi THEN NoMatch
    ELSE IF lo = hi THEN MatchHere(re, k + 1, s, i + lo, caps)
    ELSE LET left == TryLazy(re, k, s, i, caps, lo, (lo + hi) \div 2)
         IN  IF left.ok THEN left ELSE TryLazy(re, k, s, i, caps, (lo + hi) \div 2 + 1, hi)

\* the leftmost start position in lo..hi at which the pattern matches
RECURSIVE SearchIn(_, _, _, _)
SearchIn(re, s, lo, hi) ==
    IF lo > hi THEN NoMatch
    ELSE IF lo = hi
         THEN LET r == MatchHere(re, 1, s, lo, NoCaps)
              IN  IF r.ok THEN [r EXCEPT !.index = lo] ELSE NoMatch
    ELSE LET left == SearchIn(re, s, lo, (lo + hi) \div 2)
         IN  IF left.ok THEN left ELSE SearchIn(re, s, (lo + hi) \div 2 + 1, hi)

\* String.prototype.match(regex) for a regex without the g flag.  The result
\* keeps positions: index and end are 1-based, end exclusive; match[0] is
\* s[index..end-1]; ok = FALSE is the null result.
match(s, regex) ==
    SearchIn(regex.atoms, IF regex.i THEN toLowerCase(s) ELSE s, 1, Len(s) + 1)

\* RegExp.prototype.test
test(regex, s) == match(s, regex).ok

\* match[g]: the text of capture group g, "" when the group did not take part
\* (undefined and "" are both falsy, which is all the callers distinguish)
Group(s, m, g) ==
    IF m.caps[g][1] = 0 THEN "" ELSE SubSeq(s, m.caps[g][1], m.caps[g][2] - 1)

(***************************************************************************)
(* Numbers.  A JavaScript number is [nan, n, d]: NaN, or the decimal n/d   *)
(* with d a power of ten and no trailing zero in the fraction, so that     *)
(* equal numbers are equal records.                                        *)
(***************************************************************************)
RECURSIVE Norm(_, _)
Norm(n, d) ==
    IF d > 1 /\ n % 10 = 0 THEN Norm(n \div 10, d \div 10)
    ELSE [nan |-> FALSE, n |-> n, d |-> d]

NaN == [nan |-> TRUE, n |-> 0, d |-> 1]
Num(n) == [nan |-> FALSE, n |-> n, d |-> 1]
Dec(n, d) == Norm(n, d)

Add(x, y) == IF x.nan \/ y.nan THEN NaN ELSE Norm(x.n * y.d + y.n * x.d, x.d * y.d)
Mul(x, y) == IF x.nan \/ y.nan THEN NaN ELSE Norm(x.n * y.n, x.d * y.d)
\* x / 10
DivTen(x) == IF x.nan THEN NaN ELSE Norm(x.n, x.d * 10)

\* comparisons: every comparison with NaN is false
Lt(x, y) == ~x.nan /\ ~y.nan /\ x.n * y.d < y.n * x.d
Gt(x, y) == Lt(y, x)
Le(x, y) == ~x.nan /\ ~y.nan /\ x.n * y.d <= y.n * x.d

\* Math.round: the nearest integer, a tie towards +Infinity; NaN stays NaN
MathRound(x) == IF x.nan THEN NaN ELSE Num((2 * x.n + x.d) \div (2 * x.d))
\* Math.floor: the largest integer not above x (x is never negative here)
MathFloor(x) == IF x.nan THEN NaN ELSE Num(x.n \div x.d)
\* Math.max and Math.min of two numbers: NaN if either is NaN
MathMax(x, y) == IF x.nan \/ y.nan THEN NaN ELSE IF Lt(x, y) THEN y ELSE x
MathMin(x, y) == IF x.nan \/ y.nan THEN NaN ELSE IF Lt(y, x) THEN y ELSE x

DigitValue(c) == CHOOSE k \in 0..9 : SubSeq("0123456789", k + 1, k + 1) = c

RECURSIVE DigitsValue(_)
DigitsValue(s) ==
    IF Len(s) = 0 THEN 0
    ELSE 10 * DigitsValue(SubSeq(s, 1, Len(s) - 1)) + DigitValue(SubSeq(s, Len(s), Len(s)))

RECURSIVE PowTen(_)
PowTen(k) == IF k = 0 THEN 1 ELSE 10 * PowTen(k - 1)

\* parseInt(s) in base ten: leading white space skipped, then the longest run
\* of digits; NaN when there is none
parseInt(s) ==
    LET t == trimStart(s)
        k == RunLength("d", t, 1)
    IN  IF k = 0 THEN NaN ELSE Num(DigitsValue(SubSeq(t, 1, k)))

\* parseFloat(s): leading white space skipped, then the longest prefix
\* digits [ "." digits ] with at least one digit; NaN when there is none
parseFloat(s) ==
    LET t  == trimStart(s)
        k  == RunLength("d", t, 1)
        f  == IF k < Len(t) /\ SubSeq(t, k + 1, k + 1) = "."
              THEN RunLength("d", t, k + 2) ELSE 0
    IN  IF k = 0 /\ f = 0 THEN NaN
        ELSE Norm(DigitsValue(SubSeq(t, 1, k)) * PowTen(f) + DigitsValue(SubSeq(t, k + 2, k + 1 + f)),
                  PowTen(f))

(***************************************************************************)
(* Recognizer lists.  The loop                                             *)
(*   for (const regex of regexes) {                                        *)
(*     const match = rawOutput.match(regex);                               *)
(*     if (match && match[1]) { ...; break; } }                            *)
(* returns the first capture of the first recognizer that matches with a   *)
(* non-empty group 1: [found, k, text].                                    *)
(***************************************************************************)
RECURSIVE FirstCaptureFrom(_, _, _, _)
FirstCaptureFrom(s, regexes, k, minLen) ==
    IF k > Len(regexes) THEN [found |-> FALSE, k |-> 0, text |-> ""]
    ELSE LET m == match(s, regexes[k])
         IN  IF m.ok /\ Len(Group(s, m, 1)) > minLen
             THEN [found |-> TRUE, k |-> k, text |-> Group(s, m, 1)]
             ELSE FirstCaptureFrom(s, regexes, k + 1, minLen)

\* the same loop without its break: the last matching recognizer decides
RECURSIVE LastCaptureFrom(_, _, _)
LastCaptureFrom(s, regexes, k) ==
    IF k > Len(regexes) THEN [found |-> FALSE, k |-> 0, text |-> ""]
    ELSE LET later == LastCaptureFrom(s, regexes, k + 1)
             m == match(s, regexes[k])
         IN  IF later.found THEN later
             ELSE IF m.ok /\ Group(s, m, 1) # ""
                  THEN [found |-> TRUE, k |-> k, text |-> Group(s, m, 1)]
                  ELSE later

FirstCaptureNoBreak(s, regexes) == LastCaptureFrom(s, regexes, 1)

FirstCapture(s, regexes) == FirstCaptureFrom(s, regexes, 1, 0)

\* the loop with the condition match && match[1] && match[1].length > minLen
FirstCaptureLonger(s, regexes, minLen) == FirstCaptureFrom(s, regexes, 1, minLen)

\* <label>:?\s*(\d+)<tail>
ScoreRegex(label, tail) ==
    RegExp(<<Lit(label), Opt(":"), Star("s"), Open(1), Plus("d"), Close(1), Lit(tail)>>, "i")
\* <label>(\d+)
ScoreOfRegex(label) == RegExp(<<Lit(label), Open(1), Plus("d"), Close(1)>>, "i")

(***************************************************************************)
(* formatTechnicalSeoResults                                               *)
(***************************************************************************)
performanceRegexes == <<
    ScoreRegex("Performance score", "/100"),
    ScoreRegex("Performance rating", "/100"),
    ScoreRegex("Performance", "/100"),
    ScoreRegex("Performance", " out of 100"),
    ScoreOfRegex("Performance score of ") >>

\* the score with its variable initialised to 0 instead of 65
performanceScoreInitialZero(rawOut) ==
    LET e == FirstCapture(rawOut, performanceRegexes)
    IN  IF e.found THEN parseInt(e.text) ELSE Num(0)

performanceScore(rawOut) ==
    LET e == FirstCapture(rawOut, performanceRegexes)
    IN  IF e.found THEN parseInt(e.text) ELSE Num(65)

mobileRegexes == <<
    ScoreRegex("Mobile-friendly score", "/100"),
    ScoreRegex("Mobile score", "/100"),
    ScoreRegex("Mobile", "/100"),
    ScoreRegex("Mobile-friendliness", "/100"),
    ScoreRegex("Mobile optimization score", "") >>

mobileScore(rawOut) ==
    LET e == FirstCapture(rawOut, mobileRegexes)
    IN  IF e.found THEN parseInt(e.text) ELSE Num(70)

Signal(atoms, points) == [pattern |-> RegExp(atoms, "i"), points |-> points]

structureSignals == <<
    Signal(<<Lit("Clean, semantic URLs")>>, 10),
    Signal(<<Lit("Breadcrumb navigation: Present")>>, 5),
    Signal(<<Lit("H1 headings: 1 detected")>>, 5),
    Signal(<<Lit("Canonical URL: Present")>>, 5),
    Signal(<<Lit("Sitemap: Referenced")>>, 5),
    Signal(<<Lit("Robots"), One("."), Lit("txt: Present")>>, 5),
    Signal(<<Lit("Information architecture:"), Lazy, Lit("good")>>, 10),
    Signal(<<Lit("Internal links:"), Lazy, Lit("found")>>, 5),
    Signal(<<Lit("URL structure:"), Lazy, Lit("clean")>>, 10),
    Signal(<<Lit("Site navigation: Present")>>, 5) >>

negativeStructureSignals == <<
    Signal(<<Lit("H1 headings: 0 detected")>>, -10),
    Signal(<<Lit("H1 headings:"), Lazy, Lit("Too many")>>, -5),
    Signal(<<Lit("Canonical URL: Missing")>>, -10),
    Signal(<<Lit("Robots"), One("."), Lit("txt: Not found")>>, -5),
    Signal(<<Lit("Sitemap: Not detected")>>, -5),
    Signal(<<Lit("duplicate content issues")>>, -10),
    Signal(<<Lit("URLs contain undesirable elements")>>, -10),
    Signal(<<Lit("Site navigation: Not clearly defined")>>, -5) >>

\* for (const signal of signals) if (signal.pattern.test(rawOutput)) score += signal.points
\* (a score that is NaN stays NaN whatever is added to it; testing for it
\* at each step also keeps the evaluation shallow)
RECURSIVE ApplySignals(_, _, _, _)
ApplySignals(score, signals, k, rawOut) ==
    IF k > Len(signals) \/ score.nan THEN score
    ELSE ApplySignals(IF test(signals[k].pattern, rawOut)
                      THEN Add(score, Num(signals[k].points)) ELSE score,
                      signals, k + 1, rawOut)

\* Math.max(0, Math.min(100, x))
Clamp100(x) == MathMax(Num(0), MathMin(Num(100), x))

\* the same loops with the clamp inside them, after every signal
RECURSIVE ApplySignalsClamped(_, _, _, _)
ApplySignalsClamped(score, signals, k, rawOut) ==
    IF k > Len(signals) \/ score.nan THEN score
    ELSE ApplySignalsClamped(IF test(signals[k].pattern, rawOut)
                             THEN Clamp100(Add(score, Num(signals[k].points))) ELSE score,
                             signals, k + 1, rawOut)

structureScoreClampedPerStep(rawOut) ==
    ApplySignalsClamped(ApplySignalsClamped(Num(70), structureSignals, 1, rawOut),
                        negativeStructureSignals, 1, rawOut)

structureScore(rawOut) ==
    Clamp100(ApplySignals(ApplySignals(Num(70), structureSignals, 1, rawOut),
                          negativeStructureSignals, 1, rawOut))

schemaRegexes == <<
    ScoreRegex("Schema score", "/100"),
    ScoreRegex("Structured data score", "/100"),
    ScoreRegex("Schema markup rating", "") >>

Bonus(cond, points) == IF cond THEN Num(points) ELSE Num(0)

\* the signal-derived schema score, before its clamp
schemaSignalSum(rawOut) ==
    LET base ==
          IF includes(rawOut, "Likely eligible") THEN 90
          ELSE IF includes(rawOut, "Partially eligible") THEN 70
          ELSE IF includes(rawOut, "Schema types detected") /\ ~includes(rawOut, "None detected")
               THEN 60
          ELSE IF includes(rawOut, "Schema types detected: None detected")
                  \/ includes(rawOut, "No schema detected")
               THEN 30
          ELSE 50
    IN  Add(Add(Add(Num(base),
                    Bonus(includes(rawOut, "JSON-LD instances:")
                          /\ ~includes(rawOut, "JSON-LD instances: 0"), 10)),
                Bonus(includes(rawOut, "Within <head> tag (recommended)"), 5)),
            Bonus(includes(rawOut, "Missing recommended properties"), -15))

\* the signal-derived score returned without its clamp
schemaScoreUnclamped(rawOut) ==
    LET e == FirstCapture(rawOut, schemaRegexes)
    IN  IF e.found THEN parseInt(e.text) ELSE schemaSignalSum(rawOut)

schemaScore(rawOut) ==
    LET e == FirstCapture(rawOut, schemaRegexes)
    IN  IF e.found THEN parseInt(e.text) ELSE Clamp100(schemaSignalSum(rawOut))

\* Math.round(p * 0.4 + m * 0.25 + s * 0.2 + sc * 0.15)
overallScore(p, m, s, sc) ==
    MathRound(Add(Add(Mul(p, Dec(4, 10)), Mul(m, Dec(25, 100))),
                  Add(Mul(s, Dec(2, 10)), Mul(sc, Dec(15, 100)))))

\* /a|b|c/i: an alternation of literal keywords
KeywordRegex(alts) == RegExp(<<Alt(alts)>>, "i")

\* /<label>:?\s*(.*?)(\n|$)/i with <label> given as atoms
LineRegex(labelAtoms) ==
    RegExp(labelAtoms \o <<Opt(":"), Star("s"), Open(1), Lazy, Close(1)>> \o LineEnd(2), "i")

\* s.split(/\.|;/)[0]
FirstSentence(s) == SubSeq(s, 1, FirstOutside("^.;", s, 1, Len(s)) - 1)

\* s.split(/,|;/)
RECURSIVE SplitList(_)
SplitList(s) ==
    LET p == FirstOutside("^,;", s, 1, Len(s))
    IN  IF p > Len(s) THEN <<s>>
        ELSE <<SubSeq(s, 1, p - 1)>> \o SplitList(SubSeq(s, p + 1, Len(s)))

issueRegexes == <<
    LineRegex(<<Lit("critical issue")>>),
    LineRegex(<<Lit("major problem")>>),
    LineRegex(<<Lit("significant issue")>>),
    LineRegex(<<Lit("high priority")>>),
    LineRegex(<<Lit("urgent fix")>>) >>

issueCategory(issue) ==
    IF test(KeywordRegex(<<"performance", "speed", "load time", "core web vitals", "lcp",
                           "fid", "cls", "render", "resource">>), issue) THEN "Performance"
    ELSE IF test(KeywordRegex(<<"mobile", "viewport", "tap target", "screen size",
                                "responsive">>), issue) THEN "Mobile"
    ELSE IF test(KeywordRegex(<<"schema", "structured data", "markup", "json-ld",
                                "microdata", "rich result">>), issue) THEN "Schema"
    ELSE "Structure"

issueImpact(issue) ==
    IF test(KeywordRegex(<<"conversion", "bounce", "engagement", "revenue", "ranking",
                           "traffic">>), issue)
    THEN "Directly impacts conversions and search rankings"
    ELSE IF test(KeywordRegex(<<"user experience", "usability", "accessibility">>), issue)
    THEN "Degrades user experience and engagement metrics"
    ELSE IF test(KeywordRegex(<<"crawl", "index", "bot", "spider">>), issue)
    THEN "Hinders search engine crawling and indexation"
    ELSE "Reduces search visibility and user experience"

\* s.charAt(0).toUpperCase() + s.slice(1), with a period added unless s ends with one
Sentence(s) ==
    LET cap == UpperChar(charAt(s, 1)) \o SubSeq(s, 2, Len(s))
    IN  IF Len(cap) > 0 /\ SubSeq(cap, Len(cap), Len(cap)) = "." THEN cap ELSE cap \o "."

\* /(should|could|recommend|fix by|implement|add|use|change|improve) (.*?)(\.|$)/i
issueRecommendation(issue) ==
    LET recMatch ==
            match(issue,
                  RegExp(<<Open(1), Alt(<<"should", "could", "recommend", "fix by",
                                          "implement", "add", "use", "change", "improve">>),
                           Close(1), Lit(" "), Open(2), Lazy, Close(2),
                           Open(3), AltOrEnd(<<".">>), Close(3)>>, "i"))
    IN  IF recMatch.ok /\ Group(issue, recMatch, 2) # ""
        THEN Sentence(trim(Group(issue, recMatch, 2)))
        ELSE "Fix the issue according to technical SEO best practices"

Issue(category, issue, impact, recommendation) ==
    [category |-> category, issue |-> issue, impact |-> impact,
     recommendation |-> recommendation]

\* while ((match = rawOutput.substring(startPos).match(regex)) !== null) { ... }
\* rest is rawOutput.substring(startPos) and m its match; the loop ends once
\* five issues are collected
RECURSIVE ScanIssues(_, _, _, _)
ScanIssues(rest, regex, m, acc) ==
    IF ~m.ok \/ Len(acc) >= 5 THEN acc
    ELSE ScanIssues(SubSeq(rest, m.end, Len(rest)), regex,
                    match(SubSeq(rest, m.end, Len(rest)), regex),
                    IF Len(trim(Group(rest, m, 1))) > 15
                    THEN Append(acc, Issue(issueCategory(trim(Group(rest, m, 1))),
                                           trim(FirstSentence(trim(Group(rest, m, 1)))),
                                           issueImpact(trim(Group(rest, m, 1))),
                                           issueRecommendation(trim(Group(rest, m, 1)))))
                    ELSE acc)

\* for (const regex of issueRegexes) { ...; if (criticalIssues.length >= 5) break }
RECURSIVE directIssuesFrom(_, _, _)
directIssuesFrom(rawOut, k, acc) ==
    IF k > Len(issueRegexes) \/ Len(acc) >= 5 THEN acc
    ELSE directIssuesFrom(rawOut, k + 1,
             ScanIssues(rawOut, issueRegexes[k], match(rawOut, issueRegexes[k]), acc))

lcpRegex ==
    RegExp(<<Lit("Estimated Largest Contentful Paint"), Opt(":"), Star("s"),
             Open(1), Plus("d."), Close(1), Lit("s")>>, "i")
tapTargetsRegex ==
    RegExp(<<Lit("small tap targets"), Opt(":"), Star("s"), Open(1), Plus("d"), Close(1)>>, "i")

\* a list with the entry when cond holds, as the guarded push of the source
When(cond, entry) == IF cond THEN <<entry>> ELSE <<>>

lcpHigh(rawOut) ==
    LET lcpMatch == match(rawOut, lcpRegex)
    IN  lcpMatch.ok /\ Gt(parseFloat(Group(rawOut, lcpMatch, 1)), Dec(25, 10))

fallbackIssues(rawOut, perf, mob) ==
    LET tapTargetsMatch == match(rawOut, tapTargetsRegex)
    IN
    (IF Lt(perf, Num(70)) THEN
       When(includes(rawOut, "Render-blocking resources"),
            Issue("Performance", "Render-blocking resources detected",
                  "Slows down page rendering and initial content display",
                  "Defer non-critical JavaScript and CSS resources"))
       \o When(includes(rawOut, "Unoptimized images"),
            Issue("Performance", "Unoptimized images",
                  "Increases page load time and bandwidth usage",
                  "Optimize images and implement lazy loading"))
       \o When(lcpHigh(rawOut),
            Issue("Performance", "High Largest Contentful Paint (LCP)",
                  "Negatively affects Core Web Vitals and user experience",
                  "Optimize the largest element (usually hero image) and improve server response time"))
     ELSE <<>>)
    \o
    (IF Lt(mob, Num(70)) THEN
       When(includes(rawOut, "Viewport configured: No"),
            Issue("Mobile", "Missing viewport meta tag",
                  "Page won't scale properly on mobile devices",
                  "Add a viewport meta tag with width=device-width, initial-scale=1"))
       \o When(tapTargetsMatch.ok /\ Gt(parseInt(Group(rawOut, tapTargetsMatch, 1)), Num(5)),
            Issue("Mobile", "Small tap targets",
                  "Difficult for users to tap elements on mobile devices",
                  "Increase size of buttons and interactive elements to at least 44px"))
       \o When(includes(rawOut, "Potential horizontal scrolling issues: Yes"),
            Issue("Mobile", "Horizontal scrolling issues",
                  "Poor user experience on mobile devices",
                  "Implement responsive design with relative width units and proper viewport"))
     ELSE <<>>)
    \o When(includes(rawOut, "H1 headings: 0 detected"),
            Issue("Structure", "Missing H1 heading",
                  "Reduces content hierarchy clarity for users and search engines",
                  "Add a single H1 heading that includes the main keyword"))
    \o When(includes(rawOut, "URL parameters may cause duplicate content"),
            Issue("Structure", "Potential duplicate content",
                  "Search engines may index multiple versions of the same page",
                  "Implement canonical tags or fix URL parameters"))
    \o When(includes(rawOut, "Canonical URL: Missing"),
            Issue("Structure", "Missing canonical URL",
                  "May cause duplicate content issues with similar pages",
                  "Add canonical tags to indicate the preferred version of the page"))
    \o (IF includes(rawOut, "Schema types detected: None detected")
        THEN <<Issue("Schema", "Missing structured data",
                     "No rich results in search engines",
                     "Implement JSON-LD structured data for your content type")>>
        ELSE When(includes(rawOut, "Missing recommended properties:"),
                  Issue("Schema", "Incomplete schema markup",
                        "May not qualify for rich results in search engines",
                        "Add missing recommended properties to schema markup")))

\* if (directIssues.length < 3) directIssues.push(...fallbackIssues)
combineIssues(direct, fallback) ==
    IF Len(direct) < 3 THEN direct \o fallback ELSE direct

\* the criticalIssues array before the final slice
criticalIssues(rawOut, perf, mob) ==
    combineIssues(directIssuesFrom(rawOut, 1, <<>>), fallbackIssues(rawOut, perf, mob))

improvementRegexes == <<
    LineRegex(<<Lit("recommend"), Alt(<<"ation", "ed">>)>>),
    LineRegex(<<Lit("suggest"), Alt(<<"ion", "ed">>)>>),
    LineRegex(<<Lit("improve"), Opt("ment")>>),
    LineRegex(<<Lit("fix")>>),
    LineRegex(<<Lit("optimization")>>) >>

\* the category with the mobile keywords tested before the performance keywords
improvementCategoryMobileFirst(improvement) ==
    IF test(KeywordRegex(<<"mobile", "viewport", "tap target", "screen size",
                           "responsive">>), improvement) THEN "Mobile"
    ELSE IF test(KeywordRegex(<<"performance", "speed", "load time", "core web vitals", "lcp",
                                "fid", "cls", "render", "resource", "cache", "compress">>),
                 improvement) THEN "Performance"
    ELSE IF test(KeywordRegex(<<"schema", "structured data", "markup", "json-ld",
                                "microdata", "rich result">>), improvement) THEN "Schema"
    ELSE "Structure"

improvementCategory(improvement) ==
    IF test(KeywordRegex(<<"performance", "speed", "load time", "core web vitals", "lcp",
                           "fid", "cls", "render", "resource", "cache", "compress">>),
            improvement) THEN "Performance"
    ELSE IF test(KeywordRegex(<<"mobile", "viewport", "tap target", "screen size",
                                "responsive">>), improvement) THEN "Mobile"
    ELSE IF test(KeywordRegex(<<"schema", "structured data", "markup", "json-ld",
                                "microdata", "rich result">>), improvement) THEN "Schema"
    ELSE "Structure"

improvementPriority(improvement) ==
    IF test(KeywordRegex(<<"urgent", "critical", "important", "high", "essential", "must",
                           "significant">>), improvement) THEN "High"
    ELSE IF test(KeywordRegex(<<"consider", "might", "could", "option", "low", "minor">>),
                 improvement) THEN "Low"
    ELSE "Medium"

improvementEffort(improvement) ==
    IF test(KeywordRegex(<<"simple", "easy", "quick", "straightforward", "minor", "fast">>),
            improvement) THEN "Low"
    ELSE IF test(KeywordRegex(<<"complex", "difficult", "major", "extensive", "significant",
                                "time-consuming">>), improvement) THEN "High"
    ELSE "Medium"

Improvement(category, recommendation, priority, effort) ==
    [category |-> category, recommendation |-> recommendation,
     priority |-> priority, effort |-> effort]

\* the improvement scan: as the issue scan, with seven as the limit
RECURSIVE ScanImprovements(_, _, _, _)
ScanImprovements(rest, regex, m, acc) ==
    IF ~m.ok \/ Len(acc) >= 7 THEN acc
    ELSE ScanImprovements(SubSeq(rest, m.end, Len(rest)), regex,
                          match(SubSeq(rest, m.end, Len(rest)), regex),
                          IF Len(trim(Group(rest, m, 1))) > 20
                          THEN Append(acc, Improvement(
                                   improvementCategory(trim(Group(rest, m, 1))),
                                   trim(FirstSentence(trim(Group(rest, m, 1)))) \o ".",
                                   improvementPriority(trim(Group(rest, m, 1))),
                                   improvementEffort(trim(Group(rest, m, 1)))))
                          ELSE acc)

RECURSIVE directImprovementsFrom(_, _, _)
directImprovementsFrom(rawOut, k, acc) ==
    IF k > Len(improvementRegexes) \/ Len(acc) >= 7 THEN acc
    ELSE directImprovementsFrom(rawOut, k + 1,
             ScanImprovements(rawOut, improvementRegexes[k],
                              match(rawOut, improvementRegexes[k]), acc))

directImprovements(rawOut) == directImprovementsFrom(rawOut, 1, <<>>)

fallbackImprovements(rawOut, perf, mob, schema) ==
    LET missingProps == match(rawOut, LineRegex(<<Lit("Missing recommended properties")>>))
    IN
    (IF Lt(perf, Num(90)) THEN
       When(includes(rawOut, "Render-blocking resources"),
            Improvement("Performance",
                "Eliminate render-blocking resources by deferring non-critical CSS/JS",
                "High", "Medium"))
       \o When(includes(rawOut, "Unoptimized images"),
            Improvement("Performance", "Optimize images and implement lazy loading",
                "Medium", "Low"))
       \o When(lcpHigh(rawOut),
            Improvement("Performance",
                "Optimize Largest Contentful Paint by improving server response time and resource loading",
                "High", "Medium"))
       \o When(includes(rawOut, "Total resources:"),
            Improvement("Performance",
                "Reduce the number of resource requests by combining files and eliminating unnecessary scripts",
                "Medium", "Medium"))
     ELSE <<>>)
    \o
    (IF Lt(mob, Num(90)) THEN
       When(includes(rawOut, "small tap targets"),
            Improvement("Mobile", "Increase size of tap targets for better mobile usability",
                "Medium", "Low"))
       \o When(includes(rawOut, "Potential horizontal scrolling issues: Yes"),
            Improvement("Mobile", "Fix horizontal scrolling issues with responsive design",
                "High", "Medium"))
       \o When(includes(rawOut, "Media queries: Not detected"),
            Improvement("Mobile",
                "Implement media queries for responsive design across all devices",
                "High", "Medium"))
     ELSE <<>>)
    \o When(~includes(rawOut, "Sitemap: Referenced in robots.txt"),
            Improvement("Structure", "Add XML sitemap and reference it in robots.txt",
                "Medium", "Low"))
    \o When(~includes(rawOut, "Canonical URL: Present"),
            Improvement("Structure", "Add canonical tags to prevent duplicate content issues",
                "Medium", "Low"))
    \o When(includes(rawOut, "H1 headings: 0 detected") \/ includes(rawOut, "H1 headings: Missing"),
            Improvement("Structure",
                "Add a single, descriptive H1 heading that includes the primary keyword",
                "High", "Low"))
    \o (IF includes(rawOut, "Schema types detected: None detected")
        THEN <<Improvement("Schema",
                   "Implement JSON-LD structured data markup relevant to your content type",
                   "Medium", "Medium")>>
        ELSE IF includes(rawOut, "Missing recommended properties:")
        THEN When(missingProps.ok /\ Group(rawOut, missingProps, 1) # "",
                  Improvement("Schema",
                      "Add missing schema properties: "
                         \o substring(Group(rawOut, missingProps, 1), 0, 40) \o "...",
                      "Medium", "Low"))
        ELSE When(~includes(rawOut, "JSON-LD") /\ Lt(schema, Num(80)),
                  Improvement("Schema",
                      "Convert existing schema markup to JSON-LD format for better compatibility",
                      "Low", "Medium")))

\* the combination with the fallback entries put first
combineImprovementsFallbackFirst(direct, fallback) ==
    IF Len(direct) >= 4 THEN direct ELSE fallback \o direct

\* directImprovements.length >= 4 ? directImprovements : [...direct, ...fallback]
combineImprovements(direct, fallback) ==
    IF Len(direct) >= 4 THEN direct ELSE direct \o fallback

\* the duplicate test with a prefix of fifteen characters
isDuplicatePrefix15(item, current) ==
    /\ item.category = current.category
    /\ \/ includes(toLowerCase(item.recommendation),
                   substring(toLowerCase(current.recommendation), 0, 15))
       \/ includes(toLowerCase(current.recommendation),
                   substring(toLowerCase(item.recommendation), 0, 15))

\* the duplicate test with both recommendations cut to their prefixes
isDuplicatePrefixes(item, current) ==
    /\ item.category = current.category
    /\ \/ includes(substring(toLowerCase(item.recommendation), 0, 20),
                   substring(toLowerCase(current.recommendation), 0, 20))
       \/ includes(substring(toLowerCase(current.recommendation), 0, 20),
                   substring(toLowerCase(item.recommendation), 0, 20))

\* the duplicate test of the reduce callback
isDuplicate(item, current) ==
    /\ item.category = current.category
    /\ \/ includes(toLowerCase(item.recommendation),
                   substring(toLowerCase(current.recommendation), 0, 20))
       \/ includes(toLowerCase(current.recommendation),
                   substring(toLowerCase(item.recommendation), 0, 20))

RECURSIVE dedupeFrom(_, _, _)
dedupeFrom(improvements, k, acc) ==
    IF k > Len(improvements) THEN acc
    ELSE dedupeFrom(improvements, k + 1,
                    IF \E j \in 1..Len(acc) : isDuplicate(acc[j], improvements[k])
                    THEN acc
                    ELSE Append(acc, improvements[k]))

\* the reduce with the kept entry put in front of the accumulator
RECURSIVE dedupeFrontFrom(_, _, _)
dedupeFrontFrom(improvements, k, acc) ==
    IF k > Len(improvements) THEN acc
    ELSE dedupeFrontFrom(improvements, k + 1,
                         IF \E j \in 1..Len(acc) : isDuplicate(acc[j], improvements[k])
                         THEN acc
                         ELSE <<improvements[k]>> \o acc)

uniqueImprovementsUnshift(improvements) == dedupeFrontFrom(improvements, 1, <<>>)

\* the reduce that keeps the last of the duplicates instead of the first
RECURSIVE dedupeLastFrom(_, _)
dedupeLastFrom(improvements, k) ==
    IF k > Len(improvements) THEN <<>>
    ELSE (IF \E j \in (k + 1)..Len(improvements) :
                 isDuplicate(improvements[j], improvements[k])
          THEN <<>>
          ELSE <<improvements[k]>>) \o dedupeLastFrom(improvements, k + 1)

uniqueImprovementsKeepLast(improvements) == dedupeLastFrom(improvements, 1)

\* improvements.reduce((acc, current) => ..., [])
uniqueImprovements(improvements) == dedupeFrom(improvements, 1, <<>>)

\* the slice that keeps one entry more
sliceOneMore(list, n) == SubSeq(list, 1, IF Len(list) < n + 1 THEN Len(list) ELSE n + 1)

\* Array.prototype.slice(0, n)
slice(list, n) == SubSeq(list, 1, IF Len(list) < n THEN Len(list) ELSE n)

formatTechnicalSeoResults(rawOut) ==
    LET perf   == performanceScore(rawOut)
        mob    == mobileScore(rawOut)
        struct == structureScore(rawOut)
        schema == schemaScore(rawOut)
    IN  [overallScore     |-> overallScore(perf, mob, struct, schema),
         structureScore   |-> struct,
         performanceScore |-> perf,
         mobileScore      |-> mob,
         schemaScore      |-> schema,
         criticalIssues   |-> slice(criticalIssues(rawOut, perf, mob), 3),
         improvements     |-> slice(uniqueImprovements(
                                 combineImprovements(directImprovements(rawOut),
                                     fallbackImprovements(rawOut, perf, mob, schema))), 5)]

(***************************************************************************)
(* formatContentResults                                                    *)
(***************************************************************************)
readabilityRegexes == <<
    ScoreRegex("Flesch-Kincaid score", ""),
    ScoreRegex("readability score", ""),
    ScoreRegex("FK score", ""),
    ScoreRegex("readability", ""),
    ScoreOfRegex("readability rating of ") >>

readabilityScore(rawOut) ==
    LET e == FirstCapture(rawOut, readabilityRegexes)
    IN  IF e.found THEN parseInt(e.text) ELSE Num(65)

\* /<label>:?\s*([\d.]+)<tail>/i
DecimalRegex(label, tail) ==
    RegExp(<<Lit(label), Opt(":"), Star("s"), Open(1), Plus("d."), Close(1), Lit(tail)>>, "i")

keywordDensityRegexes == <<
    DecimalRegex("keyword density", "%"),
    DecimalRegex("density", "%"),
    DecimalRegex("keyword frequency", "%"),
    DecimalRegex("keyword usage", "%"),
    RegExp(<<Lit("keyword appears at "), Alt(<<"a", "an">>), Lit(" "),
             Open(1), Plus("d."), Close(1), Lit("% density")>>, "i") >>

keywordDensity(rawOut) ==
    LET e == FirstCapture(rawOut, keywordDensityRegexes)
    IN  IF e.found THEN parseFloat(e.text) ELSE Dec(15, 10)

\* for (const regex of regexes) if (regex.test(rawOutput)) { flag = true; break; }
AnyTest(regexes, rawOut) == \E k \in 1..Len(regexes) : test(regexes[k], rawOut)

\* /a.*?b.*?c/i
Chain3(a, b, c) == RegExp(<<Lit(a), Lazy, Lit(b), Lazy, Lit(c)>>, "i")

h1InclusionRegexes == <<
    RegExp(<<Lit("H1/Title inclusion"), Opt(":"), Star("s"), Lit("Yes")>>, "i"),
    Chain3("keyword", "found", "H1"),
    Chain3("H1", "contains", "keyword"),
    Chain3("keyword", "present", "title"),
    Chain3("title", "includes", "keyword") >>

introInclusionRegexes == <<
    RegExp(<<Lit("First 100 words"), Opt(":"), Star("s"), Lit("Yes")>>, "i"),
    Chain3("keyword", "found", "introduction"),
    Chain3("keyword", "present", "beginning"),
    Chain3("introduction", "contains", "keyword"),
    RegExp(<<Lit("keyword"), Lazy, Lit("appears"), Lazy, Lit("first"), Lazy,
             Lit("paragraph")>>, "i") >>

keywordInH1(rawOut) == AnyTest(h1InclusionRegexes, rawOut)
keywordInIntro(rawOut) == AnyTest(introInclusionRegexes, rawOut)

\* the keyword score with the second band ending at 3 instead of 3.5
keywordScoreBandAtThree(density, inH1, inIntro) ==
    LET adj == IF Le(Dec(5, 10), density) /\ Le(density, Dec(25, 10)) THEN 20
               ELSE IF Gt(density, Dec(25, 10)) /\ Le(density, Num(3)) THEN 10
               ELSE IF Gt(density, Num(3)) THEN -10
               ELSE IF Lt(density, Dec(5, 10)) THEN -15
               ELSE 0
    IN  MathMin(Num(100), MathMax(Num(0),
            Add(Add(Add(Num(60), Num(adj)), Bonus(inH1, 10)), Bonus(inIntro, 10))))

keywordScore(density, inH1, inIntro) ==
    LET adj == IF Le(Dec(5, 10), density) /\ Le(density, Dec(25, 10)) THEN 20
               ELSE IF Gt(density, Dec(25, 10)) /\ Le(density, Dec(35, 10)) THEN 10
               ELSE IF Gt(density, Dec(35, 10)) THEN -10
               ELSE IF Lt(density, Dec(5, 10)) THEN -15
               ELSE 0
    IN  MathMin(Num(100), MathMax(Num(0),
            Add(Add(Add(Num(60), Num(adj)), Bonus(inH1, 10)), Bonus(inIntro, 10))))

semanticScoreRegexes == <<
    DecimalRegex("Topic coverage score", "/10"),
    DecimalRegex("semantic relevance", "/10"),
    DecimalRegex("semantic score", "/10"),
    DecimalRegex("semantic depth", "/10"),
    DecimalRegex("topical coverage", "/10"),
    RegExp(<<Lit("semantic coverage of "), Open(1), Plus("d"), Close(1), Lit("%")>>, "i"),
    RegExp(<<Lit("topic coverage"), Opt(":"), Star("s"), Open(1), Plus("d"), Close(1),
             Lit("%")>>, "i") >>

\* regex.toString().includes('%'): a percent sign in the pattern's literal text
SourceIncludesPercent(regex) ==
    \E k \in 1..Len(regex.atoms) :
        regex.atoms[k].t = "lit" /\ includes(regex.atoms[k].s, "%")

topicScoreRaw(rawOut) ==
    LET e == FirstCapture(rawOut, semanticScoreRegexes)
    IN  IF ~e.found THEN Num(7)
        ELSE IF SourceIncludesPercent(semanticScoreRegexes[e.k]) THEN DivTen(parseInt(e.text))
        ELSE parseFloat(e.text)

semanticScore(rawOut) == MathRound(Mul(topicScoreRaw(rawOut), Num(10)))

\* the weighted sum cut by Math.floor instead of rounded
contentScoreFloor(readability, keyword, semantic) ==
    MathFloor(Add(Add(Mul(readability, Dec(3, 10)), Mul(keyword, Dec(4, 10))),
                  Mul(semantic, Dec(3, 10))))

\* Math.round(readability * 0.3 + keyword * 0.4 + semantic * 0.3)
contentScore(readability, keyword, semantic) ==
    MathRound(Add(Add(Mul(readability, Dec(3, 10)), Mul(keyword, Dec(4, 10))),
                  Mul(semantic, Dec(3, 10))))

\* list.filter(keep), for the two filters of the source
\* the filter that keeps every fragment
FilterNothing(list, dropNone) == list

RECURSIVE FilterNonEmpty(_, _)
FilterNonEmpty(list, dropNone) ==
    IF Len(list) = 0 THEN <<>>
    ELSE (IF Len(Head(list)) > 0 /\ ~(dropNone /\ Head(list) = "None")
          THEN <<Head(list)>> ELSE <<>>) \o FilterNonEmpty(Tail(list), dropNone)

\* for (const regex of regexes) { const match = rawOutput.match(regex);
\*   if (match && match[1]) { const list = match[1].split(/,|;/).map(trim).filter(...);
\*     if (list.length > 0) { field = list; break; } } }
RECURSIVE FirstListFrom(_, _, _, _, _)
FirstListFrom(rawOut, regexes, k, dropNone, default) ==
    IF k > Len(regexes) THEN default
    ELSE LET m == match(rawOut, regexes[k])
             parts == SplitList(Group(rawOut, m, 1))
             list == FilterNonEmpty([j \in 1..Len(parts) |-> trim(parts[j])], dropNone)
         IN  IF m.ok /\ Group(rawOut, m, 1) # "" /\ Len(list) > 0 THEN list
             ELSE FirstListFrom(rawOut, regexes, k + 1, dropNone, default)

missingSubtopicsRegexes == <<
    LineRegex(<<Lit("Missing subtopics")>>),
    LineRegex(<<Lit("content should cover")>>),
    LineRegex(<<Lit("topics to add")>>),
    LineRegex(<<Lit("recommended subtopics")>>),
    LineRegex(<<Lit("consider adding sections on")>>),
    LineRegex(<<Lit("important subtopics missing")>>) >>

missingSubtopics(rawOut) ==
    FirstListFrom(rawOut, missingSubtopicsRegexes, 1, TRUE, <<"Topic research needed">>)

contentRecommendationRegexes == <<
    LineRegex(<<Lit("recommendation")>>),
    LineRegex(<<Lit("suggest"), Alt(<<"ion", "ed">>)>>),
    LineRegex(<<Lit("improve")>>),
    LineRegex(<<Lit("priorit"), Alt(<<"y", "ize">>)>>),
    LineRegex(<<Lit("should")>>),
    LineRegex(<<Lit("consider")>>) >>

suggestionCategory(suggestion) ==
    IF test(KeywordRegex(<<"keyword", "densit", "placement", "h1", "title">>), suggestion)
    THEN "Keyword Usage"
    ELSE IF test(KeywordRegex(<<"readab", "sentence", "paragraph", "complex", "jargon">>),
                 suggestion) THEN "Readability"
    ELSE IF test(KeywordRegex(<<"semantic", "topic", "subtopic", "coverage", "depth">>),
                 suggestion) THEN "Semantic Relevance"
    ELSE IF test(KeywordRegex(<<"structure", "format", "heading", "subhead", "layout">>),
                 suggestion) THEN "Content Structure"
    ELSE IF test(KeywordRegex(<<"meta", "description", "title tag", "schema">>), suggestion)
    THEN "Meta Data"
    ELSE "Content Structure"

suggestionPriority(suggestion) ==
    IF test(KeywordRegex(<<"urgent", "critical", "important", "high", "essential", "must">>),
            suggestion) THEN "High"
    ELSE IF test(KeywordRegex(<<"consider", "might", "could", "option", "low", "minor">>),
                 suggestion) THEN "Low"
    ELSE "Medium"

Recommendation(priority, category, suggestion) ==
    [priority |-> priority, category |-> category, suggestion |-> suggestion]

\* the recommendation scan: as the issue scan, without a limit
RECURSIVE ScanRecommendations(_, _, _, _)
ScanRecommendations(rest, regex, m, acc) ==
    IF ~m.ok THEN acc
    ELSE ScanRecommendations(SubSeq(rest, m.end, Len(rest)), regex,
                             match(SubSeq(rest, m.end, Len(rest)), regex),
                             IF Len(trim(Group(rest, m, 1))) > 15
                             THEN Append(acc, Recommendation(
                                      suggestionPriority(trim(Group(rest, m, 1))),
                                      suggestionCategory(trim(Group(rest, m, 1))),
                                      trim(Group(rest, m, 1))))
                             ELSE acc)

RECURSIVE directRecommendationsFrom(_, _, _)
directRecommendationsFrom(rawOut, k, acc) ==
    IF k > Len(contentRecommendationRegexes) THEN acc
    ELSE directRecommendationsFrom(rawOut, k + 1,
             ScanRecommendations(rawOut, contentRecommendationRegexes[k],
                                 match(rawOut, contentRecommendationRegexes[k]), acc))

\* match ? parseFloat(match[1]) : default
ParsedOr(rawOut, regex, default) ==
    LET m == match(rawOut, regex)
    IN  IF m.ok THEN parseFloat(Group(rawOut, m, 1)) ELSE Num(default)

\* list.slice(0, 2).join(" and ")
JoinFirstTwo(list) ==
    IF Len(list) = 0 THEN ""
    ELSE IF Len(list) = 1 THEN list[1]
    ELSE list[1] \o " and " \o list[2]

fallbackRecommendations(rawOut, inH1, density, subtopics, semantic) ==
    When(~inH1, Recommendation("High", "Keyword Usage", "Include target keyword in H1 heading"))
    \o (IF Lt(density, Dec(5, 10))
        THEN <<Recommendation("High", "Keyword Usage",
                 "Increase keyword usage throughout the content to at least 0.5% density")>>
        ELSE When(Gt(density, Num(3)),
                  Recommendation("Medium", "Keyword Usage",
                      "Reduce keyword density to 1-2% to avoid keyword stuffing")))
    \o When(Gt(ParsedOr(rawOut, DecimalRegex("Average sentence length", ""), 20), Num(20)),
            Recommendation("Medium", "Readability",
                "Break long sentences into shorter ones for better readability (aim for 15-20 words per sentence)"))
    \o When(Gt(ParsedOr(rawOut, DecimalRegex("Average paragraph length", ""), 100), Num(70)),
            Recommendation("Medium", "Readability",
                "Break long paragraphs into shorter ones (3-4 sentences max) to improve readability"))
    \o When(Len(subtopics) > 0 /\ subtopics[1] # "None",
            Recommendation("Medium", "Semantic Relevance",
                "Add sections on " \o JoinFirstTwo(subtopics)
                   \o " to improve topical coverage and relevance"))
    \o When(Lt(semantic, Num(60)),
            Recommendation("High", "Semantic Relevance",
                "Expand content to cover more aspects of the topic for better search visibility"))

\* directRecommendations.length >= 3 ? directRecommendations : [...direct, ...fallback]
combineRecommendations(direct, fallback) ==
    IF Len(direct) >= 3 THEN direct ELSE direct \o fallback

\* /<label> "(.*?)"/ with the given flags
QuotedRegex(label, flags) ==
    RegExp(<<Lit(label \o " \""), Open(1), Lazy, Close(1), Lit("\"")>>, flags)

keywordRegexes == <<
    QuotedRegex("for", "i"),
    QuotedRegex("keyword", "i"),
    QuotedRegex("analyzing", "i"),
    QuotedRegex("optimizing for", "i") >>

contentKeyword(rawOut) ==
    LET e == FirstCapture(rawOut, keywordRegexes)
    IN  IF e.found THEN e.text ELSE "your topic"

titleRegexes == <<
    LineRegex(<<Lit("improved title")>>),
    LineRegex(<<Lit("suggested title")>>),
    LineRegex(<<Lit("recommended title")>>),
    LineRegex(<<Lit("title tag")>>),
    LineRegex(<<Lit("optimal title")>>) >>

improvedTitle(rawOut, keyword) ==
    LET e == FirstCaptureLonger(rawOut, titleRegexes, 10)
    IN  IF e.found THEN trim(e.text)
        ELSE UpperChar(charAt(keyword, 1)) \o SubSeq(keyword, 2, Len(keyword))
                \o ": Complete Guide & Best Practices | YourBrand"

metaRegexes == <<
    LineRegex(<<Lit("improved meta description")>>),
    LineRegex(<<Lit("suggested meta description")>>),
    LineRegex(<<Lit("recommended meta")>>),
    LineRegex(<<Lit("meta description")>>),
    LineRegex(<<Lit("optimal meta")>>) >>

improvedMetaDescription(rawOut, keyword) ==
    LET e == FirstCaptureLonger(rawOut, metaRegexes, 20)
    IN  IF e.found THEN trim(e.text)
        ELSE "Learn everything about " \o keyword
                \o " in this comprehensive guide. Discover best practices, examples, and expert tips to maximize your results."

formatContentResults(rawOut) ==
    LET readability == readabilityScore(rawOut)
        density     == keywordDensity(rawOut)
        inH1        == keywordInH1(rawOut)
        kwScore     == keywordScore(density, inH1, keywordInIntro(rawOut))
        semantic    == semanticScore(rawOut)
        subtopics   == missingSubtopics(rawOut)
        keyword     == contentKeyword(rawOut)
    IN  [contentScore     |-> contentScore(readability, kwScore, semantic),
         readabilityScore |-> readability,
         keywordScore     |-> kwScore,
         semanticScore    |-> semantic,
         recommendations  |-> slice(combineRecommendations(directRecommendationsFrom(rawOut, 1, <<>>),
                                  fallbackRecommendations(rawOut, inH1, density, subtopics,
                                                          semantic)), 5),
         missingSubtopics |-> subtopics,
         improvedTitle    |-> improvedTitle(rawOut, keyword),
         improvedMetaDescription |-> improvedMetaDescription(rawOut, keyword)]

(***************************************************************************)
(* formatKeywordResults                                                    *)
(***************************************************************************)
\* rawOutput.match(/for "(.*?)"/), without the i flag
extractedKeyword(rawOut) ==
    LET keywordMatch == match(rawOut, QuotedRegex("for", ""))
    IN  IF keywordMatch.ok THEN Group(rawOut, keywordMatch, 1) ELSE "Unknown keyword"

\* s.replace(/,/g, '')
RECURSIVE RemoveCommas(_)
RemoveCommas(s) ==
    IF Len(s) = 0 THEN ""
    ELSE (IF SubSeq(s, 1, 1) = "," THEN "" ELSE SubSeq(s, 1, 1))
            \o RemoveCommas(SubSeq(s, 2, Len(s)))

\* rawOutput.match(/volume:?\s*(\d[\d,]*)/i)
searchVolume(rawOut) ==
    LET volumeRegex == RegExp(<<Lit("volume"), Opt(":"), Star("s"),
                                Open(1), One("d"), Star("d,"), Close(1)>>, "i")
        volumeMatch == match(rawOut, volumeRegex)
    IN  IF volumeMatch.ok THEN parseInt(RemoveCommas(Group(rawOut, volumeMatch, 1)))
        ELSE Num(1000)

\* /<label> (a|b) (x|y|...)/i: two capture groups
VerbValueRegex(label, verbs, values) ==
    RegExp(<<Lit(label \o " "), Open(1), Alt(verbs), Close(1), Lit(" "),
             Open(2), Alt(values), Close(2)>>, "i")

trendRegexes == <<
    LineRegex(<<Lit("trend")>>),
    LineRegex(<<Lit("trend"), Opt("s")>>),
    RegExp(<<Lit("search trend"), Opt("s"), Lit(" "), Open(1), Alt(<<"is", "are">>), Close(1),
             Opt(":"), Star("s"), Open(2), Lazy, Close(2)>> \o LineEnd(3), "i"),
    VerbValueRegex("keyword", <<"is", "has been">>,
                   <<"increasing", "decreasing", "stable", "trending", "growing">>) >>

\* an ordered list of <<keywords, label>> pairs: the label of the first pair
\* one of whose keywords occurs in text, "" if none does
RECURSIVE LabelFrom(_, _, _)
LabelFrom(text, pairs, k) ==
    IF k > Len(pairs) THEN ""
    ELSE IF test(KeywordRegex(pairs[k][1]), text) THEN pairs[k][2]
    ELSE LabelFrom(text, pairs, k + 1)

\* the loop with its break right after the first recognizer that matches
RECURSIVE FirstMatchLabelFrom(_, _, _, _, _)
FirstMatchLabelFrom(rawOut, regexes, k, pairs, default) ==
    IF k > Len(regexes) THEN default
    ELSE LET m == match(rawOut, regexes[k])
             text == IF Group(rawOut, m, 1) # "" THEN Group(rawOut, m, 1)
                     ELSE Group(rawOut, m, 2)
             label == LabelFrom(text, pairs, 1)
         IN  IF m.ok THEN (IF label # "" THEN label ELSE default)
             ELSE FirstMatchLabelFrom(rawOut, regexes, k + 1, pairs, default)

\* for (const regex of regexes) { const match = rawOutput.match(regex);
\*   if (match) { const text = match[1] || match[2] || "";
\*     if (/.../i.test(text)) { field = ...; break; } else if ... } }
RECURSIVE FirstLabelFrom(_, _, _, _, _)
FirstLabelFrom(rawOut, regexes, k, pairs, default) ==
    IF k > Len(regexes) THEN default
    ELSE LET m == match(rawOut, regexes[k])
             text == IF Group(rawOut, m, 1) # "" THEN Group(rawOut, m, 1)
                     ELSE Group(rawOut, m, 2)
             label == LabelFrom(text, pairs, 1)
         IN  IF m.ok /\ label # "" THEN label
             ELSE FirstLabelFrom(rawOut, regexes, k + 1, pairs, default)

\* the trend labels with an unlisted label for the first group
trendLabelsRising == <<
    <<<<"increas", "grow", "upward", "rising", "positive", "up", "higher">>, "Rising">>,
    <<<<"decreas", "down", "declining", "falling", "negative", "lower">>, "Decreasing">>,
    <<<<"stable", "steady", "consistent", "flat", "unchanged">>, "Stable">>,
    <<<<"seasonal", "cyclical", "periodic">>, "Seasonal">> >>

trendLabels == <<
    <<<<"increas", "grow", "upward", "rising", "positive", "up", "higher">>, "Increasing">>,
    <<<<"decreas", "down", "declining", "falling", "negative", "lower">>, "Decreasing">>,
    <<<<"stable", "steady", "consistent", "flat", "unchanged">>, "Stable">>,
    <<<<"seasonal", "cyclical", "periodic">>, "Seasonal">> >>

trend(rawOut) == FirstLabelFrom(rawOut, trendRegexes, 1, trendLabels, "Stable")

competitionRegexes == <<
    LineRegex(<<Lit("competition level")>>),
    LineRegex(<<Lit("competition")>>),
    LineRegex(<<Lit("competitive")>>),
    VerbValueRegex("competition", <<"is", "seems", "appears to be">>,
                   <<"high", "medium", "low", "moderate", "intense", "minimal">>) >>

competitionLabels == <<
    <<<<"high", "intense", "strong", "fierce", "significant">>, "High">>,
    <<<<"medium", "moderate", "average", "mid">>, "Medium">>,
    <<<<"low", "minimal", "weak", "little", "limited">>, "Low">> >>

competitionLevel(rawOut) ==
    FirstLabelFrom(rawOut, competitionRegexes, 1, competitionLabels, "Medium")

relevanceRegexes == <<
    ScoreRegex("relevance score", "/10"),
    ScoreRegex("relevance", "/10"),
    ScoreRegex("relevance", " out of 10"),
    RegExp(<<Lit("relevance "), Alt(<<"score", "rating">>), Lit(" of "),
             Open(1), Plus("d"), Close(1)>>, "i") >>

relevanceScore(rawOut) ==
    LET e == FirstCapture(rawOut, relevanceRegexes)
    IN  IF e.found THEN parseInt(e.text) ELSE Num(5)

intentRegexes == <<
    LineRegex(<<Lit("commercial intent")>>),
    LineRegex(<<Lit("buying intent")>>),
    LineRegex(<<Lit("purchase intent")>>),
    LineRegex(<<Lit("intent")>>),
    VerbValueRegex("intent", <<"is", "appears to be", "seems">>, <<"high", "medium", "low">>) >>

intentLabels == <<
    <<<<"high", "strong", "significant", "excellent", "good", "above average">>, "High">>,
    <<<<"medium", "moderate", "average", "mid">>, "Medium">>,
    <<<<"low", "minimal", "weak", "little", "poor", "limited", "below average">>, "Low">> >>

commercialIntent(rawOut) == FirstLabelFrom(rawOut, intentRegexes, 1, intentLabels, "Medium")

difficulty(competition, volume) ==
    LET base == IF competition = "High" THEN 8 ELSE IF competition = "Medium" THEN 6 ELSE 4
        adj  == IF Gt(volume, Num(10000)) THEN 1 ELSE IF Lt(volume, Num(1000)) THEN -1 ELSE 0
    IN  MathMax(Num(1), MathMin(Num(10), Add(Num(base), Num(adj))))

relatedRegexes == <<
    RegExp(<<Lit("related "), Lazy, Opt(":"), Star("s"), Open(1), Lazy, Close(1)>>
               \o LineEnd(2), "i"),
    LineRegex(<<Lit("related keywords")>>),
    LineRegex(<<Lit("similar keywords")>>),
    LineRegex(<<Lit("keyword variations")>>),
    LineRegex(<<Lit("alternative keywords")>>),
    LineRegex(<<Lit("suggested keywords")>>) >>

relatedKeywords(rawOut, keyword) ==
    FirstListFrom(rawOut, relatedRegexes, 1, FALSE,
                  <<keyword \o " guide", keyword \o " tutorial">>)

keywordRecommendationRegexes == <<
    LineRegex(<<Lit("recommendation")>>),
    LineRegex(<<Lit("recommended approach")>>),
    LineRegex(<<Lit("recommended strategy")>>),
    RegExp(<<Lit("suggest"), Open(1), Alt(<<"ion", "ed">>), Close(1), Opt(":"), Star("s"),
             Open(2), Lazy, Close(2)>> \o LineEnd(3), "i"),
    LineRegex(<<Lit("I recommend")>>) >>

generatedRecommendation(intent, competition, keyword) ==
    IF intent = "High" /\ competition = "Low"
    THEN "Priority target: Create commercial content for \"" \o keyword \o "\""
    ELSE IF intent = "High" /\ competition = "High"
    THEN "Create in-depth, unique content to compete for \"" \o keyword \o "\""
    ELSE IF intent = "Low"
    THEN "Create informational content for \"" \o keyword \o "\" to build authority"
    ELSE "Target this keyword with comprehensive, long-form content"

keywordRecommendation(rawOut, intent, competition, keyword) ==
    LET e == FirstCaptureLonger(rawOut, keywordRecommendationRegexes, 20)
    IN  IF e.found /\ trim(e.text) # "" THEN trim(e.text)
        ELSE generatedRecommendation(intent, competition, keyword)

formatKeywordResults(rawOut) ==
    LET keyword     == extractedKeyword(rawOut)
        volume      == searchVolume(rawOut)
        competition == competitionLevel(rawOut)
        intent      == commercialIntent(rawOut)
    IN  [keyword          |-> keyword,
         searchVolume     |-> volume,
         trend            |-> trend(rawOut),
         competitionLevel |-> competition,
         relevanceScore   |-> relevanceScore(rawOut),
         commercialIntent |-> intent,
         difficulty       |-> difficulty(competition, volume),
         recommendation   |-> keywordRecommendation(rawOut, intent, competition, keyword),
         relatedKeywords  |-> relatedKeywords(rawOut, keyword)]

(***************************************************************************)
(* Narratives.  An agent answers with lines of text; the answers explored  *)
(* are the texts of at most MaxFragments different fragments of the        *)
(* agent's vocabulary, stated in the order of the vocabulary, and the      *)
(* texts of two fragments in the opposite order, so that every two         *)
(* fragments meet in both orders.                                          *)
(***************************************************************************)
MaxFragments == 2

TechnicalFragments == <<
    "Performance score: 82/100\nMobile-friendly score: 55/100\nSchema score: 75/100",
    "Performance: 40/100\nMobile: 90/100\nSchema markup rating: 60",
    "Performance score: 250/100\nSchema markup rating: 400",
    "Information architecture: good, 3 levels deep\nInternal links: 24 unique links found\nURL structure: Clean, semantic URLs\nBreadcrumb navigation: Present\nSite navigation: Present\nH1 headings: 1 detected (Good)\nCanonical URL: Present\nRobots.txt: Present\nSitemap: Referenced in robots.txt",
    "Potential duplicate content issues: URL parameters may cause duplicate content\nH1 headings: 0 detected\nCanonical URL: Missing\nSchema types detected: None detected\nUnoptimized images: 4",
    "The page is served over HTTPS and answers quickly",
    "Recommendation: Please compress and resize the hero images on the mobile landing page\nSuggestion: Compress and resize the hero images before every upload",
    "Recommendation: Optimize images and implement lazy loading\nSuggestion: Optimize images for faster loading\nImprovement: This is an urgent fix for mobile tap targets",
    "Rich results: Likely eligible\nJSON-LD instances: 2\nPlacement: Within <head> tag (recommended)",
    "JSON-LD instances: 0\nMissing recommended properties: image, author\nUrgent fix: recommended: minify css bundle no 1\nUrgent fix: recommended: minify css bundle no 2\nUrgent fix: recommended: minify css bundle no 3\nUrgent fix: recommended: minify css bundle no 4\nUrgent fix: recommended: minify css bundle no 5\nUrgent fix: recommended: minify css bundle no 6" >>

ContentFragments == <<
    "Flesch-Kincaid score: 72\nKeyword density: 1.8% (Good)\nTopic coverage score: 8.5/10",
    "readability: 58\nkeyword usage: 4.2%\nsemantic depth: 6/10\nMissing subtopics: None, pricing; , setup",
    "readability score: 180\nTopic coverage score: 15/10",
    "Topic coverage score: ./10",
    "topic coverage: 250%\ndensity: 0.2%",
    "The article is well organised and stays on subject",
    "H1/Title inclusion: Yes\nFirst 100 words: Yes\nkeyword frequency: 3.5%",
    "Keyword density: .%\nRecommendation: You should consider adding more keyword variations" >>

KeywordFragments == <<
    "Relevance score: 8/10",
    "relevance: 3/10\nTrend: rising over the last year\nSimilar keywords: green tea latte, ; matcha powder",
    "Relevance score: 42/10",
    "Search volume: 12,400\nCompetition: High",
    "The phrase suits the product catalogue",
    "Commercial intent: unclear\nBuying intent: high\nRelated , ;",
    "The keyword is increasing\nSuggestion: Write a long comparison article about matcha" >>

\* the lines of an answer, joined by line feeds
RECURSIVE JoinLines(_)
JoinLines(parts) ==
    IF Len(parts) = 0 THEN ""
    ELSE IF Len(parts) = 1 THEN parts[1]
    ELSE parts[1] \o "\n" \o JoinLines(Tail(parts))

Narratives(fragments) ==
    { JoinLines([i \in 1..Len(at) |-> fragments[at[i]]]) :
        at \in { f \in UNION { [1..n -> 1..Len(fragments)] : n \in 0..MaxFragments } :
                   \/ \A i, j \in 1..Len(f) : i < j => f[i] < f[j]
                   \/ Len(f) = 2 /\ f[1] > f[2] } }

NoResult == [fn |-> "none"]

(***************************************************************************)
(* The parts of the program a specification leaves alone stay as they are  *)
(* before their first use.                                                 *)
(***************************************************************************)
ScanIdle ==
    /\ scanLoop = "none"
    /\ regexIndex = 0
    /\ startPos = 0
    /\ collected = 0
    /\ scanPc = "idle"

MaxCalls == 2

Calls == 1..MaxCalls

AgentFields == {"keywordAgent", "contentAgent", "technicalSeoAgent"}

NoTask == [method |-> "none", field |-> "none", pc |-> "idle", agent |-> 0]

\* the three private fields are null (0) after the constructor
AgentIdle ==
    /\ agents = [f \in AgentFields |-> 0]
    /\ created = [f \in AgentFields |-> 0]
    /\ tasks = [c \in Calls |-> NoTask]

PageIdle ==
    /\ page = "none"
    /\ fields = <<>>
    /\ error = ""
    /\ isLoading = FALSE
    /\ submit = "idle"

(***************************************************************************)
(* AgentService.  A run method awaits agent.invoke and returns the record  *)
(* its format function makes of result.output.                             *)
(***************************************************************************)
Init ==
    /\ call = "none"
    /\ rawOutput = ""
    /\ result = NoResult
    /\ ScanIdle
    /\ AgentIdle
    /\ PageIdle

\* const result = await agent.invoke(...): the agent answers with a narrative
runTechnicalSeoAuditInvoke ==
    /\ call = "none"
    /\ \E text \in Narratives(TechnicalFragments) : rawOutput' = text
    /\ call' = "technical"
    /\ result' = NoResult
    /\ UNCHANGED <<scanVars, agentVars, pageVars>>

\* return formatTechnicalSeoResults(result.output)
runTechnicalSeoAudit ==
    /\ call = "technical"
    /\ result' = [fn |-> "technical", value |-> formatTechnicalSeoResults(rawOutput)]
    /\ call' = "none"
    /\ UNCHANGED <<rawOutput, scanVars, agentVars, pageVars>>

runContentOptimizationInvoke ==
    /\ call = "none"
    /\ \E text \in Narratives(ContentFragments) : rawOutput' = text
    /\ call' = "content"
    /\ result' = NoResult
    /\ UNCHANGED <<scanVars, agentVars, pageVars>>

\* return formatContentResults(result.output)
runContentOptimization ==
    /\ call = "content"
    /\ result' = [fn |-> "content", value |-> formatContentResults(rawOutput)]
    /\ call' = "none"
    /\ UNCHANGED <<rawOutput, scanVars, agentVars, pageVars>>

runKeywordResearchInvoke ==
    /\ call = "none"
    /\ \E text \in Narratives(KeywordFragments) : rawOutput' = text
    /\ call' = "keyword"
    /\ result' = NoResult
    /\ UNCHANGED <<scanVars, agentVars, pageVars>>

\* return formatKeywordResults(result.output)
runKeywordResearch ==
    /\ call = "keyword"
    /\ result' = [fn |-> "keyword", value |-> formatKeywordResults(rawOutput)]
    /\ call' = "none"
    /\ UNCHANGED <<rawOutput, scanVars, agentVars, pageVars>>

Next ==
    \/ runTechnicalSeoAuditInvoke
    \/ runTechnicalSeoAudit
    \/ runContentOptimizationInvoke
    \/ runContentOptimization
    \/ runKeywordResearchInvoke
    \/ runKeywordResearch

Spec == Init /\ [][Next]_vars

(***************************************************************************)
(* The scan loops, one iteration at a time.  Each of the three loops runs  *)
(* over its recognizers; for one recognizer it matches the text from       *)
(* startPos on, again and again, until the match is null.                  *)
(***************************************************************************)
ScanLoops == {"issues", "improvements", "recommendations"}

\* the recognizers a loop runs over
scanRegexes(loop) ==
    CASE loop = "issues"          -> issueRegexes
      [] loop = "improvements"    -> improvementRegexes
      [] loop = "recommendations" -> contentRecommendationRegexes

\* the narratives a loop is given
scanNarratives(loop) ==
    IF loop = "recommendations" THEN Narratives(ContentFragments)
    ELSE Narratives(TechnicalFragments)

\* if (text.length > 15), if (improvement.length > 20): the captured text kept
scanKeeps(loop, text) ==
    IF loop = "improvements" THEN Len(trim(text)) > 20 ELSE Len(trim(text)) > 15

\* if (criticalIssues.length >= 5) break, if (directImprovements.length >= 7)
\* break; the recommendation loop has no such line
scanBreaks(loop, length) ==
    CASE loop = "issues"          -> length >= 5
      [] loop = "improvements"    -> length >= 7
      [] loop = "recommendations" -> FALSE

\* rawOutput.substring(startPos)
scanRest == SubSeq(rawOutput, startPos + 1, Len(rawOutput))

\* rawOutput.substring(startPos).match(regex) for the recognizer at work
scanMatch == match(scanRest, scanRegexes(scanLoop)[regexIndex])

\* for (const regex of regexes) { let startPos = 0; ... }, at its first recognizer
ScanInit ==
    /\ scanLoop \in ScanLoops
    /\ rawOutput \in scanNarratives(scanLoop)
    /\ regexIndex = 1
    /\ startPos = 0
    /\ collected = 0
    /\ scanPc = "scan"
    /\ call = "none"
    /\ result = NoResult
    /\ AgentIdle
    /\ PageIdle

\* the iteration that moves startPos to the match instead of past it
ScanIterationToMatch ==
    /\ scanPc = "scan"
    /\ scanMatch.ok
    /\ collected' = IF scanKeeps(scanLoop, Group(scanRest, scanMatch, 1))
                    THEN collected + 1 ELSE collected
    /\ startPos' = startPos + (scanMatch.index - 1)
    /\ scanPc' = IF scanBreaks(scanLoop, collected') THEN "done" ELSE "scan"
    /\ UNCHANGED <<scanLoop, regexIndex, call, rawOutput, result, agentVars, pageVars>>

\* one iteration of the while loop: the match is not null; the finding is
\* pushed if its text is long enough, startPos += match.index +
\* fullMatch.length, and both loops are left once the limit is reached
ScanIteration ==
    /\ scanPc = "scan"
    /\ scanMatch.ok
    /\ collected' = IF scanKeeps(scanLoop, Group(scanRest, scanMatch, 1))
                    THEN collected + 1 ELSE collected
    /\ startPos' = startPos + (scanMatch.end - 1)
    /\ scanPc' = IF scanBreaks(scanLoop, collected') THEN "done" ELSE "scan"
    /\ UNCHANGED <<scanLoop, regexIndex, call, rawOutput, result, agentVars, pageVars>>

\* the match is null: the while loop ends and the for loop takes the next
\* recognizer with startPos = 0, or ends after the last one
ScanNextRegex ==
    /\ scanPc = "scan"
    /\ ~scanMatch.ok
    /\ IF regexIndex < Len(scanRegexes(scanLoop))
       THEN /\ regexIndex' = regexIndex + 1
            /\ startPos' = 0
            /\ scanPc' = "scan"
       ELSE /\ scanPc' = "done"
            /\ UNCHANGED <<regexIndex, startPos>>
    /\ UNCHANGED <<scanLoop, collected, call, rawOutput, result, agentVars, pageVars>>

ScanNext ==
    \/ ScanIteration
    \/ ScanNextRegex

ScanSpec == ScanInit /\ [][ScanNext]_vars

(***************************************************************************)
(* AgentService under concurrent calls.  An async method runs up to its    *)
(* await and is resumed later; other calls run in between.                 *)
(***************************************************************************)
AgentInit ==
    /\ AgentIdle
    /\ call = "none"
    /\ rawOutput = ""
    /\ result = NoResult
    /\ ScanIdle
    /\ PageIdle

\* what a call does once it holds its agent: init* returns it, run* goes on
\* to agent.invoke
afterInit(method) == IF method = "init" THEN "done" ELSE "invoke"

\* a call of init*, or of run* which starts with await this.init*(): if
\* (!this.agent) the create function is called and awaited, else the field is
\* returned.  The agents created for a field are numbered from 1.
initAgent(c) ==
    /\ tasks[c].pc = "idle"
    /\ \E method \in {"init", "run"}, f \in AgentFields :
          IF agents[f] = 0
          THEN /\ created' = [created EXCEPT ![f] = created[f] + 1]
               /\ tasks' = [tasks EXCEPT ![c] = [method |-> method, field |-> f,
                                                 pc |-> "creating",
                                                 agent |-> created[f] + 1]]
          ELSE /\ tasks' = [tasks EXCEPT ![c] = [method |-> method, field |-> f,
                                                 pc |-> afterInit(method),
                                                 agent |-> agents[f]]]
               /\ UNCHANGED created
    /\ UNCHANGED <<agents, call, rawOutput, result, scanVars, pageVars>>

\* this.agent = await create...(this.model); return this.agent
initAgentCreated(c) ==
    /\ tasks[c].pc = "creating"
    /\ agents' = [agents EXCEPT ![tasks[c].field] = tasks[c].agent]
    /\ tasks' = [tasks EXCEPT ![c].pc = afterInit(tasks[c].method)]
    /\ UNCHANGED <<created, call, rawOutput, result, scanVars, pageVars>>

\* const result = await agent.invoke(...) with the agent init* returned
runInvoke(c) ==
    /\ tasks[c].pc = "invoke"
    /\ tasks' = [tasks EXCEPT ![c].pc = "done"]
    /\ UNCHANGED <<agents, created, call, rawOutput, result, scanVars, pageVars>>

AgentNext ==
    \E c \in Calls :
        \/ initAgent(c)
        \/ initAgentCreated(c)
        \/ runInvoke(c)

AgentSpec == AgentInit /\ [][AgentNext]_vars

(***************************************************************************)
(* An analysis page with its form.  The router mounts one page; the form   *)
(* keeps the typed fields and an error message, the page keeps isLoading   *)
(* and the result it displays.                                             *)
(***************************************************************************)
Pages == {"technical", "content", "keyword"}

\* the useState fields of the form of each page
FormFields(p) ==
    CASE p = "technical" -> {"url"}
      [] p = "content"   -> {"content", "keyword", "topic"}
      [] p = "keyword"   -> {"keyword", "business"}

\* what is typed into a field
Typed == {"", "  ", "matcha latte", "matcha.example", "https://matcha.example"}

\* String.prototype.startsWith
startsWith(s, prefix) == Len(s) >= Len(prefix) /\ SubSeq(s, 1, Len(prefix)) = prefix

\* let formattedUrl = url; if (!url.startsWith('http://') &&
\* !url.startsWith('https://')) formattedUrl = 'https://' + url
formattedUrl(url) ==
    IF ~startsWith(url, "http://") /\ ~startsWith(url, "https://")
    THEN "https://" \o url ELSE url

\* new URL(s) does not throw, for an s that begins with http:// or https://:
\* the host, which ends at the first '/', '?' or '#', is not empty and holds
\* no space
URLParses(s) ==
    LET afterScheme == IF startsWith(s, "https://") THEN SubSeq(s, 9, Len(s))
                       ELSE SubSeq(s, 8, Len(s))
        ends == { i \in 1..Len(afterScheme) : charAt(afterScheme, i) \in {"/", "?", "#"} }
        host == IF ends = {} THEN afterScheme
                ELSE SubSeq(afterScheme, 1, (CHOOSE i \in ends : \A j \in ends : i <= j) - 1)
    IN  /\ host # ""
        /\ \A i \in 1..Len(host) : charAt(host, i) # " "

\* the checks of handleSubmit in their order: the message of the first that
\* fails, "" when the input passes them all
validationError(p, values) ==
    CASE p = "technical" ->
           IF trim(values["url"]) = "" THEN "Please enter a URL to analyze"
           ELSE IF ~URLParses(formattedUrl(values["url"])) THEN "Please enter a valid URL"
           ELSE ""
      [] p = "content" ->
           IF trim(values["content"]) = "" THEN "Please enter content to analyze"
           ELSE IF trim(values["keyword"]) = "" THEN "Please enter a target keyword"
           ELSE IF trim(values["topic"]) = "" THEN "Please enter the content topic"
           ELSE ""
      [] p = "keyword" ->
           IF trim(values["keyword"]) = "" THEN "Please enter a keyword to analyze"
           ELSE IF trim(values["business"]) = "" THEN "Please enter your business or website"
           ELSE ""

\* the answers of the agent of a page
pageAnswers(p) ==
    CASE p = "technical" -> {TechnicalFragments[1], TechnicalFragments[6]}
      [] p = "content"   -> {ContentFragments[1], ContentFragments[6]}
      [] p = "keyword"   -> {KeywordFragments[1], KeywordFragments[5]}

\* the record the run method of a page's agentService call returns
analysisResult(p, text) ==
    CASE p = "technical" -> formatTechnicalSeoResults(text)
      [] p = "content"   -> formatContentResults(text)
      [] p = "keyword"   -> formatKeywordResults(text)

\* useState(''), useState(false), useState(null) of the mounted page and form
PageInit ==
    /\ page \in Pages
    /\ fields = [f \in FormFields(page) |-> ""]
    /\ error = ""
    /\ isLoading = FALSE
    /\ submit = "idle"
    /\ call = "none"
    /\ rawOutput = ""
    /\ result = NoResult
    /\ ScanIdle
    /\ AgentIdle

\* onChange={(e) => setX(e.target.value)}
onChange ==
    /\ \E f \in DOMAIN fields, v \in Typed : fields' = [fields EXCEPT ![f] = v]
    /\ UNCHANGED <<page, error, isLoading, submit, call, rawOutput, result,
                   scanVars, agentVars>>

\* handleSubmit up to its await.  The submit button is disabled while
\* isLoading, so the form is not submitted then.  setError(''); a failed check
\* sets its message and returns; otherwise onAnalyze is called, which is the
\* page's handleAnalyze: setIsLoading(true) and the await of the run method.
handleSubmit ==
    /\ ~isLoading
    /\ error' = validationError(page, fields)
    /\ IF validationError(page, fields) # ""
       THEN /\ submit' = "invalid"
            /\ UNCHANGED isLoading
       ELSE /\ submit' = "awaiting"
            /\ isLoading' = TRUE
    /\ UNCHANGED <<page, fields, call, rawOutput, result, scanVars, agentVars>>

\* the run method resolves: setResult(analysisResult), finally
\* setIsLoading(false); the promise handleSubmit awaits is fulfilled
handleAnalyzeResolved ==
    /\ submit = "awaiting"
    /\ \E text \in pageAnswers(page) :
          /\ rawOutput' = text
          /\ result' = [fn |-> page, value |-> analysisResult(page, text)]
    /\ isLoading' = FALSE
    /\ submit' = "succeeded"
    /\ UNCHANGED <<page, fields, error, call, scanVars, agentVars>>

\* the failure handled without the finally block
handleAnalyzeCaughtNoFinally ==
    /\ submit = "awaiting"
    /\ submit' = "failed"
    /\ UNCHANGED <<page, fields, error, isLoading, call, rawOutput, result,
                   scanVars, agentVars>>

\* the run method rejects: catch (error) { console.error(...) }, finally
\* setIsLoading(false).  The error is not thrown again, so the promise
\* handleSubmit awaits is fulfilled and its catch block does not run.
handleAnalyzeCaught ==
    /\ submit = "awaiting"
    /\ isLoading' = FALSE
    /\ submit' = "failed"
    /\ UNCHANGED <<page, fields, error, call, rawOutput, result, scanVars, agentVars>>

PageNext ==
    \/ onChange
    \/ handleSubmit
    \/ handleAnalyzeResolved
    \/ handleAnalyzeCaught

PageSpec == PageInit /\ [][PageNext]_vars

(***************************************************************************)
(* Properties of the returned records                                      *)
(***************************************************************************)
\* lo <= x <= hi for a number x; false for NaN
InRange(x, lo, hi) == Le(Num(lo), x) /\ Le(x, Num(hi))

\* x is an integer that is not negative
IsNonNegativeInteger(x) == ~x.nan /\ x.d = 1 /\ x.n >= 0

\* C1: whatever narrative the agent returned, no numeric field of the record
\* a format function returns is NaN.
NoNumericFieldIsNaN ==
    /\ result.fn = "technical" =>
         \A f \in {"overallScore", "structureScore", "performanceScore", "mobileScore",
                   "schemaScore"} : ~result.value[f].nan
    /\ result.fn = "content" =>
         \A f \in {"contentScore", "readabilityScore", "keywordScore", "semanticScore"} :
             ~result.value[f].nan
    /\ result.fn = "keyword" =>
         \A f \in {"searchVolume", "relevanceScore", "difficulty"} : ~result.value[f].nan

\* C2: every score of the record formatTechnicalSeoResults returns lies in
\* [0,100], also when the narrative states a score above 100.
TechnicalScoresWithin100 ==
    result.fn = "technical" =>
        \A f \in {"overallScore", "structureScore", "performanceScore", "mobileScore",
                  "schemaScore"} : InRange(result.value[f], 0, 100)

\* C3: every score of the record formatContentResults returns lies in
\* [0,100], also when the narrative states a value out of range (a score
\* that is NaN is left to C1).
ContentScoresWithin100 ==
    result.fn = "content" =>
        \A f \in {"contentScore", "readabilityScore", "keywordScore", "semanticScore"} :
            result.value[f].nan \/ InRange(result.value[f], 0, 100)

\* C4: the record formatKeywordResults returns has relevanceScore in [0,10],
\* difficulty in [1,10] and a searchVolume that is a non-negative integer.
KeywordNumbersWithinBounds ==
    result.fn = "keyword" =>
        /\ InRange(result.value.relevanceScore, 0, 10)
        /\ InRange(result.value.difficulty, 1, 10)
        /\ IsNonNegativeInteger(result.value.searchVolume)

\* no regular expression of the list matches the text
NoneMatches(regexes, rawOut) == \A k \in 1..Len(regexes) : ~test(regexes[k], rawOut)

\* no signal of the table matches the text
NoSignal(signals, rawOut) == \A k \in 1..Len(signals) : ~test(signals[k].pattern, rawOut)

\* the phrases whose presence formatTechnicalSeoResults tests with includes
\* for the schema score and for the fallback issues
technicalPhrases == {
    "Likely eligible", "Partially eligible", "Schema types detected",
    "No schema detected", "JSON-LD instances:", "Within <head> tag (recommended)",
    "Missing recommended properties", "Render-blocking resources", "Unoptimized images",
    "Viewport configured: No", "Potential horizontal scrolling issues: Yes",
    "H1 headings: 0 detected", "URL parameters may cause duplicate content",
    "Canonical URL: Missing" }

\* the text gives formatTechnicalSeoResults no evidence for a score or an issue
TechnicalNothingMatches(rawOut) ==
    /\ NoneMatches(performanceRegexes, rawOut)
    /\ NoneMatches(mobileRegexes, rawOut)
    /\ NoneMatches(schemaRegexes, rawOut)
    /\ NoneMatches(issueRegexes, rawOut)
    /\ NoneMatches(<<lcpRegex, tapTargetsRegex>>, rawOut)
    /\ NoSignal(structureSignals, rawOut)
    /\ NoSignal(negativeStructureSignals, rawOut)
    /\ \A phrase \in technicalPhrases : ~includes(rawOut, phrase)

\* C5: on the empty text and on any text that matches no recognizer, signal
\* or tested phrase, formatTechnicalSeoResults returns performanceScore 65,
\* mobileScore 70, structureScore 70, schemaScore 50, overallScore 65 and no
\* critical issue.
TechnicalDefaults ==
    (result.fn = "technical" /\ TechnicalNothingMatches(rawOutput)) =>
        /\ result.value.performanceScore = Num(65)
        /\ result.value.mobileScore = Num(70)
        /\ result.value.structureScore = Num(70)
        /\ result.value.schemaScore = Num(50)
        /\ result.value.overallScore = Num(65)
        /\ result.value.criticalIssues = <<>>

\* a text that is not empty and matches nothing has been formatted
TechnicalDefaultsReached ==
    /\ result.fn = "technical"
    /\ rawOutput # ""
    /\ TechnicalNothingMatches(rawOutput)
    /\ result.value.overallScore = Num(65)
    /\ result.value.criticalIssues = <<>>

\* the text gives formatContentResults no evidence for a score or a subtopic
ContentNothingMatches(rawOut) ==
    /\ NoneMatches(readabilityRegexes, rawOut)
    /\ NoneMatches(keywordDensityRegexes, rawOut)
    /\ NoneMatches(h1InclusionRegexes, rawOut)
    /\ NoneMatches(introInclusionRegexes, rawOut)
    /\ NoneMatches(semanticScoreRegexes, rawOut)
    /\ NoneMatches(missingSubtopicsRegexes, rawOut)

\* C6: on the empty text and on any text that matches no recognizer,
\* formatContentResults returns readabilityScore 65, keywordScore 80,
\* semanticScore 70, contentScore 73 and missingSubtopics
\* <<"Topic research needed">>.
ContentDefaults ==
    (result.fn = "content" /\ ContentNothingMatches(rawOutput)) =>
        /\ result.value.readabilityScore = Num(65)
        /\ result.value.keywordScore = Num(80)
        /\ result.value.semanticScore = Num(70)
        /\ result.value.contentScore = Num(73)
        /\ result.value.missingSubtopics = <<"Topic research needed">>

\* a text that is not empty and matches nothing has been formatted
ContentDefaultsReached ==
    /\ result.fn = "content"
    /\ rawOutput # ""
    /\ ContentNothingMatches(rawOutput)
    /\ result.value.contentScore = Num(73)
    /\ result.value.missingSubtopics = <<"Topic research needed">>

\* the recognizers of the list that match the text with a capture
MatchingRecognizers(regexes, rawOut) ==
    { k \in 1..Len(regexes) :
        LET m == match(rawOut, regexes[k]) IN m.ok /\ Group(rawOut, m, 1) # "" }

\* the text matches at least two different recognizers of the list
TwoMatch(regexes, rawOut) == Cardinality(MatchingRecognizers(regexes, rawOut)) >= 2

\* the least index of a non-empty set of indices
Least(indices) == CHOOSE k \in indices : \A j \in indices : k <= j

\* the matching recognizer that the list declares first
FirstDeclared(regexes, rawOut) == Least(MatchingRecognizers(regexes, rawOut))

\* what the recognizer declared first captures
FirstDeclaredCapture(regexes, rawOut) ==
    Group(rawOut, match(rawOut, regexes[FirstDeclared(regexes, rawOut)]), 1)

\* the topic score read from the recognizer declared first
FirstDeclaredTopicScore(rawOut) ==
    IF SourceIncludesPercent(semanticScoreRegexes[FirstDeclared(semanticScoreRegexes, rawOut)])
    THEN DivTen(parseInt(FirstDeclaredCapture(semanticScoreRegexes, rawOut)))
    ELSE parseFloat(FirstDeclaredCapture(semanticScoreRegexes, rawOut))

\* C8: when the text matches two different recognizers of the ordered list
\* of a numeric field (performanceScore, mobileScore, schemaScore,
\* readabilityScore, keyword density, topic score, relevanceScore), the
\* field has the value captured by the recognizer declared first, wherever
\* the matches lie in the text.
PatternPrecedence ==
    /\ result.fn = "technical" =>
        /\ TwoMatch(performanceRegexes, rawOutput) =>
              result.value.performanceScore
                  = parseInt(FirstDeclaredCapture(performanceRegexes, rawOutput))
        /\ TwoMatch(mobileRegexes, rawOutput) =>
              result.value.mobileScore
                  = parseInt(FirstDeclaredCapture(mobileRegexes, rawOutput))
        /\ TwoMatch(schemaRegexes, rawOutput) =>
              result.value.schemaScore
                  = parseInt(FirstDeclaredCapture(schemaRegexes, rawOutput))
    /\ result.fn = "content" =>
        /\ TwoMatch(readabilityRegexes, rawOutput) =>
              result.value.readabilityScore
                  = parseInt(FirstDeclaredCapture(readabilityRegexes, rawOutput))
        /\ TwoMatch(keywordDensityRegexes, rawOutput) =>
              /\ keywordDensity(rawOutput)
                    = parseFloat(FirstDeclaredCapture(keywordDensityRegexes, rawOutput))
              /\ result.value.keywordScore
                    = keywordScore(
                          parseFloat(FirstDeclaredCapture(keywordDensityRegexes, rawOutput)),
                          keywordInH1(rawOutput), keywordInIntro(rawOutput))
        /\ TwoMatch(semanticScoreRegexes, rawOutput) =>
              result.value.semanticScore
                  = MathRound(Mul(FirstDeclaredTopicScore(rawOutput), Num(10)))
    /\ result.fn = "keyword" =>
        /\ TwoMatch(relevanceRegexes, rawOutput) =>
              result.value.relevanceScore
                  = parseInt(FirstDeclaredCapture(relevanceRegexes, rawOutput))

\* a text where the third performance recognizer matches earlier than the
\* first one, with another number, has been formatted: the first one decided
PatternPrecedenceReached ==
    /\ result.fn = "technical"
    /\ MatchingRecognizers(performanceRegexes, rawOutput) = {1, 3}
    /\ match(rawOutput, performanceRegexes[3]).index
          < match(rawOutput, performanceRegexes[1]).index
    /\ Group(rawOutput, match(rawOutput, performanceRegexes[3]), 1)
          # Group(rawOutput, match(rawOutput, performanceRegexes[1]), 1)
    /\ result.value.performanceScore
          = parseInt(Group(rawOutput, match(rawOutput, performanceRegexes[1]), 1))

\* the points of the signals of the table that match, added from the last
\* signal to the first
RECURSIVE MatchedPoints(_, _, _)
MatchedPoints(signals, k, rawOut) ==
    IF k = 0 THEN 0
    ELSE (IF test(signals[k].pattern, rawOut) THEN signals[k].points ELSE 0)
            + MatchedPoints(signals, k - 1, rawOut)

\* 70 and the points of every matching signal, the negative ones first
RawStructureSum(rawOut) ==
    70 + MatchedPoints(negativeStructureSignals, Len(negativeStructureSignals), rawOut)
       + MatchedPoints(structureSignals, Len(structureSignals), rawOut)

\* C9: structureScore is 70 plus the points of every matching positive and
\* negative structure signal, clamped to [0,100] once after all of them, so
\* in whatever order they are added; it is 100 when the sum exceeds 100.
StructureScoreClampedOnce ==
    result.fn = "technical" =>
        LET raw == RawStructureSum(rawOutput)
        IN  /\ raw \in 0..100 => result.value.structureScore = Num(raw)
            /\ raw > 100 => result.value.structureScore = Num(100)
            /\ raw < 0 => result.value.structureScore = Num(0)

\* a text where all ten positive signals match, a raw sum of 135, has been
\* formatted to a structureScore of 100
StructureScoreClampReached ==
    /\ result.fn = "technical"
    /\ \A k \in 1..Len(structureSignals) : test(structureSignals[k].pattern, rawOutput)
    /\ RawStructureSum(rawOutput) = 135
    /\ result.value.structureScore = Num(100)

\* the improvements of the text before their deduplication
combinedImprovements(rawOut) ==
    combineImprovements(directImprovements(rawOut),
                        fallbackImprovements(rawOut, performanceScore(rawOut),
                                             mobileScore(rawOut), schemaScore(rawOut)))

\* C10: deduplicating the deduplicated improvements changes nothing, for the
\* list of classified improvements of every narrative.
DedupeIdempotent ==
    result.fn = "technical" =>
        LET once == uniqueImprovements(combinedImprovements(rawOutput))
        IN  /\ uniqueImprovements(once) = once
            /\ result.value.improvements = slice(once, 5)
            /\ uniqueImprovements(result.value.improvements) = result.value.improvements

\* a list from which the deduplication removed an entry has been
\* deduplicated a second time
DedupeIdempotentReached ==
    /\ result.fn = "technical"
    /\ LET combined == combinedImprovements(rawOutput)
       IN  Len(uniqueImprovements(combined)) < Len(combined)
    /\ Len(result.value.improvements) >= 2
    /\ uniqueImprovements(result.value.improvements) = result.value.improvements

\* the elements of a list
Range(list) == { list[k] : k \in 1..Len(list) }

\* the recommendation reads text, with or without the period the scan appends
IsText(recommendation, text) == recommendation = text \/ recommendation = text \o "."

\* the positions <<i, j>>, i before j, of two improvements of one category in
\* list that read "Optimize images and implement lazy loading" and "Optimize
\* images for faster loading"
OptimizeImagesPairs(list) ==
    { p \in (1..Len(list)) \X (1..Len(list)) :
        /\ p[1] < p[2]
        /\ list[p[1]].category = list[p[2]].category
        /\ IsText(list[p[1]].recommendation, "Optimize images and implement lazy loading")
        /\ IsText(list[p[2]].recommendation, "Optimize images for faster loading") }

\* C11 as stated: of the two improvements the deduplication keeps the first
\* and drops the second.
DedupeDropsSecondOfPair ==
    result.fn = "technical" =>
        LET combined == combinedImprovements(rawOutput)
            unique   == Range(uniqueImprovements(combined))
        IN  \A p \in OptimizeImagesPairs(combined) :
                combined[p[1]] \in unique /\ combined[p[2]] \notin unique

\* C11: of two improvements of one category that read "Optimize images and
\* implement lazy loading" and then "Optimize images for faster loading", the
\* deduplication with prefix length 20 keeps both: the prefixes "optimize
\* images and " and "optimize images for " differ.
DedupeKeepsBothOfPair ==
    result.fn = "technical" =>
        LET combined == combinedImprovements(rawOutput)
            unique   == Range(uniqueImprovements(combined))
        IN  \A p \in OptimizeImagesPairs(combined) :
                combined[p[1]] \in unique /\ combined[p[2]] \in unique

\* the pair went through the deduplication and both are in the returned record
DedupePairReached ==
    /\ result.fn = "technical"
    /\ \E p \in OptimizeImagesPairs(combinedImprovements(rawOutput)) :
           /\ combinedImprovements(rawOutput)[p[1]] \in Range(result.value.improvements)
           /\ combinedImprovements(rawOutput)[p[2]] \in Range(result.value.improvements)

\* the lines of a text
RECURSIVE LinesOf(_)
LinesOf(text) ==
    LET p == IndexIn(text, "\n", 1, Len(text))
    IN  IF p = 0 THEN {text}
        ELSE {SubSeq(text, 1, p - 1)} \cup LinesOf(SubSeq(text, p + 1, Len(text)))

\* the text of a line after its label, the whole line if it has no label
AfterLabel(line) ==
    LET p == IndexIn(line, ": ", 1, Len(line) - 1)
    IN  IF p = 0 THEN line ELSE SubSeq(line, p + 2, Len(line))

\* the fragments a classifier may be handed: the lines of the narrative, with
\* and without their labels
FragmentsOf(rawOut) == LinesOf(rawOut) \cup { AfterLabel(l) : l \in LinesOf(rawOut) }

\* the keyword groups of an axis that match the fragment: those with a keyword
\* that occurs in it, whatever the case of its letters
MatchingGroups(groups, fragment) ==
    { k \in 1..Len(groups) :
        \E w \in groups[k][1] : includes(toLowerCase(fragment), w) }

\* the label of the first matching group in declared order, default if none
FirstGroupLabel(groups, fragment, default) ==
    IF MatchingGroups(groups, fragment) = {} THEN default
    ELSE groups[Least(MatchingGroups(groups, fragment))][2]

CategoryGroups == <<
    <<{"performance", "speed", "load time", "core web vitals", "lcp", "fid", "cls",
       "render", "resource", "cache", "compress"}, "Performance">>,
    <<{"mobile", "viewport", "tap target", "screen size", "responsive"}, "Mobile">>,
    <<{"schema", "structured data", "markup", "json-ld", "microdata", "rich result"},
      "Schema">>,
    <<{"structure", "url", "h1", "canonical", "sitemap", "robot", "navigation",
       "internal link"}, "Structure">> >>

PriorityGroups == <<
    <<{"urgent", "critical", "important", "high", "essential", "must", "significant"},
      "High">>,
    <<{"consider", "might", "could", "option", "low", "minor"}, "Low">> >>

EffortGroups == <<
    <<{"simple", "easy", "quick", "straightforward", "minor", "fast"}, "Low">>,
    <<{"complex", "difficult", "major", "extensive", "significant", "time-consuming"},
      "High">> >>

UrgentFix == "This is an urgent fix for mobile tap targets"

\* C12: on each axis an improvement fragment gets the label of the first
\* keyword group in declared order that matches it, and the default label
\* (Structure, Medium, Medium) when none matches; the fragment "This is an
\* urgent fix for mobile tap targets" is classified Mobile, High, Medium, and
\* so is the improvement the scan makes of it.
ImprovementClassification ==
    result.fn = "technical" =>
        /\ \A f \in FragmentsOf(rawOutput) :
              /\ improvementCategory(f) = FirstGroupLabel(CategoryGroups, f, "Structure")
              /\ improvementPriority(f) = FirstGroupLabel(PriorityGroups, f, "Medium")
              /\ improvementEffort(f) = FirstGroupLabel(EffortGroups, f, "Medium")
        /\ UrgentFix \in FragmentsOf(rawOutput) =>
              /\ improvementCategory(UrgentFix) = "Mobile"
              /\ improvementPriority(UrgentFix) = "High"
              /\ improvementEffort(UrgentFix) = "Medium"
              /\ \A r \in Range(result.value.improvements) :
                    r.recommendation = UrgentFix \o "." =>
                        r = Improvement("Mobile", UrgentFix \o ".", "High", "Medium")

\* the fragment of the scenario was classified and returned, next to a
\* fragment that matches the keywords of two categories
ImprovementClassificationReached ==
    /\ result.fn = "technical"
    /\ Improvement("Mobile", UrgentFix \o ".", "High", "Medium")
           \in Range(result.value.improvements)
    /\ \E r \in Range(result.value.improvements) :
           /\ Cardinality(MatchingGroups(CategoryGroups, r.recommendation)) >= 2
           /\ r.category = "Performance"

\* the delta of the density x.n / x.d: +20 in [0.5, 2.5], +10 in (2.5, 3.5],
\* -10 above 3.5, -15 below 0.5
DensityDelta(x) ==
    IF 10 * x.n >= 5 * x.d /\ 10 * x.n <= 25 * x.d THEN 20
    ELSE IF 10 * x.n > 25 * x.d /\ 10 * x.n <= 35 * x.d THEN 10
    ELSE IF 10 * x.n > 35 * x.d THEN -10
    ELSE -15

ClampInt(x, lo, hi) == IF x < lo THEN lo ELSE IF x > hi THEN hi ELSE x

DensityLine == "Keyword density: 1.8% (Good)"

\* the first mention of a density in the text is the one of DensityLine
DensityLineComesFirst(rawOut) ==
    /\ includes(rawOut, DensityLine)
    /\ IndexIn(toLowerCase(rawOut), "density", 1, Len(rawOut) - 6)
         = IndexIn(rawOut, DensityLine, 1, Len(rawOut) - Len(DensityLine) + 1) + 8

CapturedNoNumber(regexes, rawOut) ==
    /\ MatchingRecognizers(regexes, rawOut) # {}
    /\ \A k \in 1..Len(FirstDeclaredCapture(regexes, rawOut)) :
           charAt(FirstDeclaredCapture(regexes, rawOut), k) \notin Digits

\* C14: a numeric recognizer that matches but captures no valid number counts
\* as absent evidence: the keyword density is its default 1.5 (and the keyword
\* score the one of that density), the topic score its default 7
\* (semanticScore 70), and no score of the returned record is NaN.
ParseFailureIsAbsence ==
    result.fn = "content" =>
        /\ CapturedNoNumber(keywordDensityRegexes, rawOutput) =>
              /\ keywordDensity(rawOutput) = Dec(15, 10)
              /\ result.value.keywordScore =
                     keywordScore(Dec(15, 10), keywordInH1(rawOutput),
                                  keywordInIntro(rawOutput))
        /\ CapturedNoNumber(semanticScoreRegexes, rawOutput) =>
              result.value.semanticScore = Num(70)
        /\ \/ CapturedNoNumber(keywordDensityRegexes, rawOutput)
           \/ CapturedNoNumber(semanticScoreRegexes, rawOutput)
           => \A f \in {"contentScore", "readabilityScore", "keywordScore",
                        "semanticScore"} : ~result.value[f].nan

Levels == {"High", "Medium", "Low"}

\* C15: every enumerated field of a returned record carries a label of its
\* taxonomy: trend; competitionLevel and commercialIntent; the category of
\* every critical issue; category, priority and effort of every improvement;
\* category and priority of every content recommendation.
TaxonomyLabels ==
    /\ result.fn = "keyword" =>
          /\ result.value.trend \in {"Increasing", "Decreasing", "Stable", "Seasonal"}
          /\ result.value.competitionLevel \in Levels
          /\ result.value.commercialIntent \in Levels
    /\ result.fn = "technical" =>
          /\ \A r \in Range(result.value.criticalIssues) :
                r.category \in {"Performance", "Mobile", "Schema", "Structure"}
          /\ \A r \in Range(result.value.improvements) :
                /\ r.category \in {"Performance", "Mobile", "Schema", "Structure"}
                /\ r.priority \in Levels
                /\ r.effort \in Levels
    /\ result.fn = "content" =>
          \A r \in Range(result.value.recommendations) :
              /\ r.category \in {"Keyword Usage", "Readability", "Semantic Relevance",
                                 "Content Structure", "Meta Data"}
              /\ r.priority \in Levels

\* a keyword record whose trend was classified from the narrative's words
TaxonomyLabelsReached ==
    /\ result.fn = "keyword"
    /\ includes(rawOutput, "Trend: rising")
    /\ result.value.trend = "Increasing"

\* the positions of the separators , and ; of a text, with both of its ends
Separators(text) ==
    { k \in 1..Len(text) : charAt(text, k) \in {",", ";"} } \cup {0, Len(text) + 1}

\* the n-th separator position in increasing order
SeparatorAt(text, n) ==
    CHOOSE k \in Separators(text) :
        Cardinality({ j \in Separators(text) : j < k }) = n - 1

\* the comma/semicolon-separated fragments of a text, trimmed
TrimmedFragments(text) ==
    [n \in 1..(Cardinality(Separators(text)) - 1) |->
        trim(SubSeq(text, SeparatorAt(text, n) + 1, SeparatorAt(text, n + 1) - 1))]

IsNotEmpty(fragment) == fragment # ""
IsSubtopic(fragment) == fragment # "" /\ fragment # "None"

\* the recognizers of the list whose capture yields a fragment that Keep accepts
RecognizersWithFragments(regexes, rawOut, Keep(_)) ==
    { k \in MatchingRecognizers(regexes, rawOut) :
        SelectSeq(TrimmedFragments(Group(rawOut, match(rawOut, regexes[k]), 1)), Keep)
            # <<>> }

\* the accepted fragments of the first such recognizer, default if there is none
ListFromEvidence(regexes, rawOut, Keep(_), default) ==
    IF RecognizersWithFragments(regexes, rawOut, Keep) = {} THEN default
    ELSE SelectSeq(TrimmedFragments(
             Group(rawOut,
                   match(rawOut, regexes[Least(RecognizersWithFragments(regexes, rawOut, Keep))]),
                   1)), Keep)

NoBlankElement(list) == list # <<>> /\ \A k \in 1..Len(list) : trim(list[k]) # ""

RelatedKeywordsFromEvidenceReached ==
    /\ result.fn = "keyword"
    /\ result.value.relatedKeywords = <<"green tea latte", "matcha powder">>

\* the critical issues before truncation
untruncatedIssues(rawOut) ==
    criticalIssues(rawOut, performanceScore(rawOut), mobileScore(rawOut))

\* the content recommendations before truncation
untruncatedRecommendations(rawOut) ==
    combineRecommendations(directRecommendationsFrom(rawOut, 1, <<>>),
        fallbackRecommendations(rawOut, keywordInH1(rawOut), keywordDensity(rawOut),
                                missingSubtopics(rawOut), semanticScore(rawOut)))

\* short is the list of the first entries of long, at most max of them, and
\* all of them if long has no more than max
IsPrefixOfAtMost(short, long, max) ==
    /\ Len(short) <= max
    /\ Len(short) = (IF Len(long) < max THEN Len(long) ELSE max)
    /\ \A k \in 1..Len(short) : short[k] = long[k]

RecommendationsTruncatedReached ==
    /\ result.fn = "content"
    /\ Len(untruncatedRecommendations(rawOutput)) > 5
    /\ Len(result.value.recommendations) = 5

\* the first twenty characters of one text occur in the other text, letter
\* case aside
PrefixContained(a, b) ==
    \/ includes(toLowerCase(a), substring(toLowerCase(b), 0, 20))
    \/ includes(toLowerCase(b), substring(toLowerCase(a), 0, 20))

\* no two entries of the list have the same category and texts of which one
\* holds the prefix of the other
NoNearDuplicates(list, field) ==
    \A i, j \in 1..Len(list) :
        i < j /\ list[i].category = list[j].category
            => ~PrefixContained(list[i][field], list[j][field])

\* C18: no returned list of findings holds two entries of one category where
\* the 20-character prefix of one entry's text is contained in the other's:
\* criticalIssues, improvements and recommendations are all deduplicated.
FindingsDeduplicated ==
    /\ result.fn = "technical" =>
          /\ NoNearDuplicates(result.value.criticalIssues, "issue")
          /\ NoNearDuplicates(result.value.improvements, "recommendation")
    /\ result.fn = "content" =>
          NoNearDuplicates(result.value.recommendations, "suggestion")

\* the entries of the list at the positions of the set, in the list's order
RECURSIVE SelectPositions(_, _, _)
SelectPositions(list, K, k) ==
    IF k > Len(list) THEN <<>>
    ELSE (IF k \in K THEN <<list[k]>> ELSE <<>>) \o SelectPositions(list, K, k + 1)

\* the sets of positions a deduplication may keep: a position is kept exactly
\* when no kept position before it holds a duplicate of its entry
KeptPositions(list, Dup(_, _)) ==
    { K \in SUBSET (1..Len(list)) :
        \A k \in 1..Len(list) :
            k \in K <=> ~\E j \in K : j < k /\ Dup(list[j], list[k]) }

\* the output is the input with exactly the duplicates of earlier kept
\* entries dropped
DropsExactly(input, output, Dup(_, _)) ==
    \E K \in KeptPositions(input, Dup) : output = SelectPositions(input, K, 1)

\* the first twenty characters of a text, in lower case
Prefix20(text) == substring(toLowerCase(text), 0, 20)

\* same category, and the prefix of one recommendation is a substring of the
\* prefix of the other
DuplicateByPrefixes(a, b) ==
    /\ a.category = b.category
    /\ \/ includes(Prefix20(a.recommendation), Prefix20(b.recommendation))
       \/ includes(Prefix20(b.recommendation), Prefix20(a.recommendation))

\* same category, and the prefix of one recommendation is a substring of the
\* whole text of the other
DuplicateByText(a, b) ==
    /\ a.category = b.category
    /\ PrefixContained(a.recommendation, b.recommendation)

\* C19 as stated: the deduplication of the improvements drops an improvement
\* exactly when an earlier kept improvement has its category and the
\* 20-character prefix of one recommendation is a substring of the
\* 20-character prefix of the other; a prefix that occurs later inside the
\* other's full text does not make a duplicate.
DedupeComparesPrefixes ==
    result.fn = "technical" =>
        LET input == combinedImprovements(rawOutput)
        IN  /\ DropsExactly(input, uniqueImprovements(input), DuplicateByPrefixes)
            /\ result.value.improvements = slice(uniqueImprovements(input), 5)

\* C19 amended: the deduplication of the improvements drops an improvement
\* exactly when an earlier kept improvement has its category and the
\* 20-character prefix of one recommendation, in lower case, is a substring
\* of the whole lower-cased text of the other.
DedupeComparesPrefixWithText ==
    result.fn = "technical" =>
        LET input == combinedImprovements(rawOutput)
        IN  /\ DropsExactly(input, uniqueImprovements(input), DuplicateByText)
            /\ result.value.improvements = slice(uniqueImprovements(input), 5)

\* an improvement was dropped whose prefix occurs inside the full text of an
\* earlier kept improvement of its category but not inside that one's prefix,
\* and no kept improvement before it is a duplicate of it by prefixes
PrefixInsideFullTextReached ==
    /\ result.fn = "technical"
    /\ LET input == combinedImprovements(rawOutput)
           kept  == uniqueImprovements(input)
       IN  \E k \in 1..Len(input) :
               /\ input[k] \notin Range(kept)
               /\ \E e \in Range(kept) : DuplicateByText(e, input[k])
               /\ \A e \in Range(kept) : ~DuplicateByPrefixes(e, input[k])

\* C20: the deduplication of the improvements preserves order and keeps first
\* occurrences: its output is a subsequence of its input, the first input
\* entry is kept, every dropped entry is a duplicate of an entry kept before
\* it, and an entry whose category no earlier entry has is never dropped.
DedupeKeepsFirstInOrder ==
    result.fn = "technical" =>
        LET input == combinedImprovements(rawOutput)
            kept  == uniqueImprovements(input)
        IN  /\ \E K \in SUBSET (1..Len(input)) :
                   /\ kept = SelectPositions(input, K, 1)
                   /\ Len(input) > 0 => 1 \in K
                   /\ \A k \in (1..Len(input)) \ K :
                          \E j \in K : j < k /\ DuplicateByText(input[j], input[k])
                   /\ \A k \in 1..Len(input) :
                          (\A j \in 1..(k - 1) : input[j].category # input[k].category)
                              => k \in K
            /\ result.value.improvements = slice(kept, 5)

\* the deduplication dropped an entry and kept entries of two categories,
\* one of them after the dropped entry's position
DedupeDroppedAndKeptReached ==
    /\ result.fn = "technical"
    /\ LET input == combinedImprovements(rawOutput)
           kept  == uniqueImprovements(input)
       IN  /\ Len(kept) < Len(input)
           /\ \E a, b \in Range(kept) : a.category # b.category
           /\ \E k \in 1..Len(input) :
                  /\ input[k] \notin Range(kept)
                  /\ \E i \in (k + 1)..Len(input) : input[i] \in Range(kept)
           /\ Len(result.value.improvements) >= 2

\* the evidence a label loop reads from a match: group 1, or group 2 when
\* group 1 is empty
Evidence(rawOut, regex) ==
    LET m == match(rawOut, regex)
    IN  IF Group(rawOut, m, 1) # "" THEN Group(rawOut, m, 1) ELSE Group(rawOut, m, 2)

\* the label of the first pair of the taxonomy one of whose keywords occurs in
\* the text, letter case aside; "" when none does
TaxonomyLabel(text, pairs) ==
    LET hits == { k \in 1..Len(pairs) :
                    \E j \in 1..Len(pairs[k][1]) :
                        includes(toLowerCase(text), pairs[k][1][j]) }
    IN  IF hits = {} THEN "" ELSE pairs[Least(hits)][2]

\* the recognizers of the list that match the text
Matching(regexes, rawOut) == { k \in 1..Len(regexes) : match(rawOut, regexes[k]).ok }

\* the recognizers of the list whose evidence holds a keyword of the taxonomy
WithLabel(regexes, rawOut, pairs) ==
    { k \in Matching(regexes, rawOut) :
        TaxonomyLabel(Evidence(rawOut, regexes[k]), pairs) # "" }

\* the label the first-declared matching recognizer gives, default when its
\* evidence holds no keyword or when no recognizer matches
LabelOfFirstMatching(regexes, rawOut, pairs, default) ==
    IF Matching(regexes, rawOut) = {} THEN default
    ELSE LET label == TaxonomyLabel(
                          Evidence(rawOut, regexes[Least(Matching(regexes, rawOut))]), pairs)
         IN  IF label = "" THEN default ELSE label

\* the label of the first-declared recognizer whose evidence holds a keyword,
\* default when there is none
LabelOfFirstWithLabel(regexes, rawOut, pairs, default) ==
    IF WithLabel(regexes, rawOut, pairs) = {} THEN default
    ELSE TaxonomyLabel(
             Evidence(rawOut, regexes[Least(WithLabel(regexes, rawOut, pairs))]), pairs)

\* the accepted fragments of the first-declared recognizer that matches with a
\* capture, default when it yields none or when no recognizer matches
ListOfFirstMatching(regexes, rawOut, Keep(_), default) ==
    IF MatchingRecognizers(regexes, rawOut) = {} THEN default
    ELSE LET list == SelectSeq(TrimmedFragments(
                         Group(rawOut,
                               match(rawOut,
                                     regexes[Least(MatchingRecognizers(regexes, rawOut))]),
                               1)), Keep)
         IN  IF list = <<>> THEN default ELSE list

RECURSIVE WeightedHundredths(_, _, _)
WeightedHundredths(scores, weights, k) ==
    IF k > Len(scores) THEN 0
    ELSE weights[k] * scores[k].n + WeightedHundredths(scores, weights, k + 1)

\* aggregate is the weighted sum of the integer sub-scores rounded to the
\* nearest integer, and lies between the least and the greatest of them
IsRoundedWeightedMean(aggregate, scores, weights) ==
    /\ ~aggregate.nan
    /\ \A i \in 1..Len(scores) : ~scores[i].nan /\ scores[i].d = 1
    /\ aggregate.d = 1
    /\ aggregate.n = (WeightedHundredths(scores, weights, 1) + 50) \div 100
    /\ \E i \in 1..Len(scores) : scores[i].n <= aggregate.n
    /\ \E i \in 1..Len(scores) : aggregate.n <= scores[i].n

\* C22: overallScore is round(0.4*performanceScore + 0.25*mobileScore +
\* 0.2*structureScore + 0.15*schemaScore) and contentScore is
\* round(0.3*readabilityScore + 0.4*keywordScore + 0.3*semanticScore), and each
\* aggregate lies between the minimum and the maximum of its sub-scores.
AggregatesAreWeightedMeans ==
    /\ result.fn = "technical" =>
          IsRoundedWeightedMean(result.value.overallScore,
              <<result.value.performanceScore, result.value.mobileScore,
                result.value.structureScore, result.value.schemaScore>>,
              <<40, 25, 20, 15>>)
    /\ result.fn = "content" =>
          IsRoundedWeightedMean(result.value.contentScore,
              <<result.value.readabilityScore, result.value.keywordScore,
                result.value.semanticScore>>,
              <<30, 40, 30>>)

\* C22 apart from the records that hold a NaN sub-score
AggregatesOfNumbersAreWeightedMeans ==
    /\ result.fn = "technical" =>
          IsRoundedWeightedMean(result.value.overallScore,
              <<result.value.performanceScore, result.value.mobileScore,
                result.value.structureScore, result.value.schemaScore>>,
              <<40, 25, 20, 15>>)
    /\ (result.fn = "content" /\ ~result.value.semanticScore.nan) =>
          IsRoundedWeightedMean(result.value.contentScore,
              <<result.value.readabilityScore, result.value.keywordScore,
                result.value.semanticScore>>,
              <<30, 40, 30>>)

\* the base of the signal-derived schema score: the value of the first
\* eligibility branch whose phrases the text holds, 50 when none does
SchemaBase(rawOut) ==
    LET branches == <<
            [holds |-> includes(rawOut, "Likely eligible"), base |-> 90],
            [holds |-> includes(rawOut, "Partially eligible"), base |-> 70],
            [holds |-> includes(rawOut, "Schema types detected")
                         /\ ~includes(rawOut, "None detected"), base |-> 60],
            [holds |-> includes(rawOut, "Schema types detected: None detected")
                         \/ includes(rawOut, "No schema detected"), base |-> 30],
            [holds |-> TRUE, base |-> 50] >>
    IN  branches[Least({ k \in 1..Len(branches) : branches[k].holds })].base

\* base + 10 (JSON-LD instances stated, and not zero of them) + 5 (placement in
\* the head recommended) - 15 (recommended properties missing)
RawSchemaSum(rawOut) ==
    SchemaBase(rawOut)
      + (IF includes(rawOut, "JSON-LD instances:")
            /\ ~includes(rawOut, "JSON-LD instances: 0") THEN 10 ELSE 0)
      + (IF includes(rawOut, "Within <head> tag (recommended)") THEN 5 ELSE 0)
      - (IF includes(rawOut, "Missing recommended properties") THEN 15 ELSE 0)

\* C23: schemaScore is the number an explicit schema recognizer captures when
\* one matches, whatever the signals say; otherwise it is the raw sum of the
\* base and the three signals clamped to [0, 100], which is 100 when the raw
\* sum is 105.
SchemaScoreExplicitOrDerived ==
    result.fn = "technical" =>
        IF Matching(schemaRegexes, rawOutput) # {}
        THEN result.value.schemaScore
               = parseInt(Evidence(rawOutput,
                     schemaRegexes[Least(Matching(schemaRegexes, rawOutput))]))
        ELSE /\ result.value.schemaScore = Num(ClampInt(RawSchemaSum(rawOutput), 0, 100))
             /\ result.value.schemaScore.n \in 0..100
             /\ RawSchemaSum(rawOutput) = 105 => result.value.schemaScore = Num(100)

\* a derived schema score whose raw sum of 105 was cut to 100
SchemaSumClampedReached ==
    /\ result.fn = "technical"
    /\ Matching(schemaRegexes, rawOutput) = {}
    /\ RawSchemaSum(rawOutput) = 105
    /\ result.value.schemaScore = Num(100)

\* an explicit schema score returned for a text that also holds schema signals
ExplicitSchemaOverSignalsReached ==
    /\ result.fn = "technical"
    /\ Matching(schemaRegexes, rawOutput) # {}
    /\ RawSchemaSum(rawOutput) # 50
    /\ result.value.schemaScore.n # ClampInt(RawSchemaSum(rawOutput), 0, 100)

\* the numeric scores of a technical record
TechnicalScores(value) ==
    <<value.performanceScore, value.mobileScore, value.structureScore,
      value.schemaScore, value.overallScore>>

\* C24: recognition is case-insensitive: the narrative written in lower case
\* gives the same numeric scores, the same fallback issues and the same
\* fallback improvements as the narrative itself.
LetterCaseIsIgnored ==
    result.fn = "technical" =>
        LET lower  == toLowerCase(rawOutput)
            folded == formatTechnicalSeoResults(lower)
            value  == result.value
        IN  /\ TechnicalScores(folded) = TechnicalScores(value)
            /\ fallbackIssues(lower, folded.performanceScore, folded.mobileScore)
                 = fallbackIssues(rawOutput, value.performanceScore, value.mobileScore)
            /\ fallbackImprovements(lower, folded.performanceScore, folded.mobileScore,
                                    folded.schemaScore)
                 = fallbackImprovements(rawOutput, value.performanceScore,
                                        value.mobileScore, value.schemaScore)

\* C30: a recognizer that opens with an alternation group resolves its field
\* from the value text after that group: when 'keyword is increasing' is the
\* only trend evidence the trend is "Increasing", and when 'Suggestion: <text>'
\* with a text longer than 20 characters is the first recommendation evidence
\* the recommendation is that text.
LeadingGroupRecognizersReadValue ==
    result.fn = "keyword" =>
        /\ ( /\ Matching(trendRegexes, rawOutput) = {4}
             /\ toLowerCase(Group(rawOutput, match(rawOutput, trendRegexes[4]), 2))
                    = "increasing" )
              => result.value.trend = "Increasing"
        /\ ( /\ Least(Matching(keywordRecommendationRegexes, rawOutput) \cup {4}) = 4
             /\ 4 \in Matching(keywordRecommendationRegexes, rawOutput)
             /\ Len(Group(rawOutput,
                          match(rawOutput, keywordRecommendationRegexes[4]), 2)) > 20 )
              => result.value.recommendation
                     = trim(Group(rawOutput,
                                  match(rawOutput, keywordRecommendationRegexes[4]), 2))

\* the fallback findings of each kind, as the narrative gives them
FallbackIssuesOf(rawOut) ==
    fallbackIssues(rawOut, performanceScore(rawOut), mobileScore(rawOut))

FallbackImprovementsOf(rawOut) ==
    fallbackImprovements(rawOut, performanceScore(rawOut), mobileScore(rawOut),
                         schemaScore(rawOut))

FallbackRecommendationsOf(rawOut) ==
    fallbackRecommendations(rawOut, keywordInH1(rawOut), keywordDensity(rawOut),
                            missingSubtopics(rawOut), semanticScore(rawOut))

\* in the returned list the directly extracted entries come first and the
\* entries that only the fallback gives come after them, and none of the
\* latter is there when the direct entries number threshold or more
DirectBeforeFallback(returned, direct, fallback, threshold) ==
    /\ \E n \in 0..Len(returned) :
          /\ \A i \in 1..n : returned[i] \in Range(direct)
          /\ \A i \in (n + 1)..Len(returned) :
                 returned[i] \in Range(fallback) \ Range(direct)
    /\ Len(direct) >= threshold =>
          \A i \in 1..Len(returned) : returned[i] \in Range(direct)

\* C29: in criticalIssues, improvements and recommendations every directly
\* extracted entry precedes every fallback entry, and no fallback entry is
\* present when the directly extracted entries reach the threshold (3 critical
\* issues, 4 improvements, 3 content recommendations).
FallbackNeverDisplacesDirect ==
    /\ result.fn = "technical" =>
          /\ DirectBeforeFallback(result.value.criticalIssues,
                                  directIssuesFrom(rawOutput, 1, <<>>),
                                  FallbackIssuesOf(rawOutput), 3)
          /\ DirectBeforeFallback(result.value.improvements,
                                  directImprovements(rawOutput),
                                  FallbackImprovementsOf(rawOutput), 4)
    /\ result.fn = "content" =>
          DirectBeforeFallback(result.value.recommendations,
                               directRecommendationsFrom(rawOutput, 1, <<>>),
                               FallbackRecommendationsOf(rawOutput), 3)

\* a technical record for a narrative whose direct issues reach the threshold
\* while the fallback had issues to give, and whose issues are direct ones
FallbackGatedReached ==
    /\ result.fn = "technical"
    /\ Len(directIssuesFrom(rawOutput, 1, <<>>)) >= 3
    /\ FallbackIssuesOf(rawOutput) # <<>>
    /\ Len(result.value.criticalIssues) = 3
    /\ \A i \in 1..3 : result.value.criticalIssues[i]
                           \in Range(directIssuesFrom(rawOutput, 1, <<>>))

\* a technical record that holds a direct improvement followed by a fallback one
FallbackAppendedReached ==
    /\ result.fn = "technical"
    /\ \E i, j \in 1..Len(result.value.improvements) :
          /\ i < j
          /\ result.value.improvements[i] \in Range(directImprovements(rawOutput))
          /\ result.value.improvements[j] \in Range(FallbackImprovementsOf(rawOutput))
                                               \ Range(directImprovements(rawOutput))

(***************************************************************************)
(* Properties of AgentService under concurrent calls                       *)
(***************************************************************************)
\* the run* calls that hold the agent their init* call returned
RunsWithAgent(f) ==
    { c \in Calls : /\ tasks[c].method = "run"
                    /\ tasks[c].field = f
                    /\ tasks[c].pc \in {"invoke", "done"} }

\* C25: under every interleaving of init* and run* calls, also of calls that
\* start while the first creation of an agent is not complete, each of the
\* three agents is created at most once and every run* call uses that agent.
EachAgentCreatedOnce ==
    \A f \in AgentFields :
        /\ created[f] <= 1
        /\ \A c \in RunsWithAgent(f) : tasks[c].agent = 1 /\ agents[f] = 1

(***************************************************************************)
(* Properties of the pages and their forms                                 *)
(***************************************************************************)
\* C26: isLoading is true whenever the analysis handleAnalyze started is in
\* flight and false once it has settled, by success or by failure, and a
\* failed analysis leaves the displayed result as it was.
LoadingFollowsAnalysis ==
    [][ /\ isLoading <=> submit = "awaiting"
        /\ isLoading' <=> submit' = "awaiting"
        /\ (submit = "awaiting" /\ submit' = "failed") => result' = result ]_vars

\* an analysis failed while the result of an earlier one was displayed
FailedAnalysisKeptResultReached ==
    /\ submit = "failed"
    /\ ~isLoading
    /\ result # NoResult

\* every required field holds more than white space, and the URL parses
InputIsValid ==
    /\ \A f \in DOMAIN fields : trim(fields[f]) # ""
    /\ page = "technical" => URLParses(formattedUrl(fields["url"]))

\* a step of handleSubmit: the form is submitted and something changes
SubmitStep ==
    /\ ~isLoading
    /\ fields' = fields
    /\ <<error, submit, isLoading>>' # <<error, submit, isLoading>>

\* C27: when the analysis submitted with valid input fails, the form ends
\* with an error message that is not empty; when a required field is empty or
\* white space, or the URL is invalid, the form sets a validation error and
\* onAnalyze is not called.
FormReportsFailureAndInvalidInput ==
    [][ /\ (submit = "awaiting" /\ submit' = "failed") => error' # ""
        /\ (SubmitStep /\ ~InputIsValid) =>
               (error' # "" /\ ~isLoading' /\ submit' # "awaiting") ]_vars

\* C27 without its first part: a submission with invalid input sets a
\* validation error and starts no analysis, and an analysis is started only
\* from valid input
InvalidInputIsRejected ==
    [][ /\ (SubmitStep /\ ~InputIsValid) =>
               (error' # "" /\ ~isLoading' /\ submit' # "awaiting")
        /\ (SubmitStep /\ InputIsValid) => (error' = "" /\ submit' = "awaiting") ]_vars

(***************************************************************************)
(* Properties of the scan loops                                            *)
(***************************************************************************)
\* what is left to scan: the recognizers after the one at work, each with the
\* whole text before it, the text after startPos, and the step that leaves
\* the loops
scanRemaining ==
    (Len(scanRegexes(scanLoop)) - regexIndex) * (Len(rawOutput) + 1)
      + (Len(rawOutput) - startPos)
      + (IF scanPc = "scan" THEN 1 ELSE 0)

\* C28: every scan loop terminates: what is left to scan is a natural number
\* that every step of a loop makes smaller; each iteration moves startPos
\* forward by at least one character, and the issue loop and the improvement
\* loop stop with no more than 5 and 7 findings.
ScanLoopsTerminate ==
    [][ /\ scanRemaining >= 0
        /\ scanRemaining' >= 0
        /\ scanRemaining' < scanRemaining
        /\ (scanPc = "scan" /\ scanMatch.ok) => startPos' > startPos
        /\ scanLoop = "issues" => collected' <= 5
        /\ scanLoop = "improvements" => collected' <= 7 ]_vars

\* the issue loop left at five issues while its recognizer still matched
ScanStoppedAtLimitReached ==
    /\ scanPc = "done"
    /\ scanLoop = "issues"
    /\ collected = 5
    /\ scanMatch.ok

\* the loops, run step by step, collect as many findings as the format
\* functions extract directly
ScanAgreesWithFormat ==
    scanPc = "done" =>
        collected = CASE scanLoop = "issues" -> Len(directIssuesFrom(rawOutput, 1, <<>>))
                      [] scanLoop = "improvements" -> Len(directImprovements(rawOutput))
                      [] scanLoop = "recommendations" ->
                             Len(directRecommendationsFrom(rawOutput, 1, <<>>))
====
